---- MODULE Spec2Model ----
(***************************************************************************)
(* A model of fastdict's Hamming-distance core: the run-length bit-column  *)
(* codec, the two CUDA kernels of cuda_hamming.py (dense and               *)
(* compressed-domain), the CudaHamming wrappers and the request loop of    *)
(* cuda_hamming_server.py.                                                 *)
(*                                                                         *)
(* A 64-bit machine word is the set of its 1-bit positions (a subset of    *)
(* 0..63, bit 0 the least significant); the arithmetic of the kernels is   *)
(* done on that representation with 64-bit wrap-around.                    *)
(***************************************************************************)
EXTENDS Integers, Sequences, FiniteSets, TLC

VARIABLES
  \* one bucket of the store and the device memory of its columns
  codes,              \* the bucket's codes, sorted ascending (array of words)
  bit_counts,         \* the 64 run-length columns (bit_counts[column] a sequence)
  behind,             \* what device memory holds right behind a column's run array
  \* the codec on its own
  cpc,                \* "raw", "compressed" (columns present), "decoded"
  origin,             \* where the columns came from: "none", "encode", "foreign"
  decoded,            \* the result of the full decode
  dr_B,               \* batch size of the batched decode
  dr_start,           \* start of the next batch
  dr_out,             \* the batches decoded so far, one after another
  \* one launch of compressed_hamming_dist
  query,              \* query[0]
  max_length,         \* max_length[0]
  base,               \* base[0]
  block,              \* blockDim.x
  grid,               \* gridDim.x
  distances,          \* the output array
  uninit,             \* what the device buffer of the output holds before the launch
  upc,                \* per unit: "start", "load", "store", "done"
  binary_codes,       \* per unit: its local array binary_codes[100]
  binary_code_index,  \* per unit: the loop variable of the distance loop
  loaded,             \* per unit: distances[...] as read for the OR
  dist_raw,           \* per unit: (xor_r * h01) >> 56
  distance,           \* per unit: distance after the clamp, before the shift
  \* CudaHamming.multi_iteration and the launches of hamming_dist it makes
  vec_b,              \* the codes to match (array of words)
  sub_vec_bs,         \* the pieces of vec_b still to be run
  dest,               \* the array of the launch under way
  tpc,                \* per thread of the launch: "start", "done"
  mi_dest,            \* multi_iteration's dest, the results so far
  mpc,                \* "idle", "call", "loop", "kernel", "returned"
  \* cuda_hamming_server.py: the request loop, one client at a time
  spc,                \* where the server is: "accept", "selector", a handler step, ...
  sock,               \* the accepted client socket: "none", "open", "closed"
  served,             \* connections accepted so far
  closes,             \* calls of client.close() so far
  error,              \* the exception raised while serving the connection, "" if none
  frame,              \* the local variables of the handler that runs
  logging_info,       \* the statistics dictionary
  c2s,                \* segments the client sent that the server has not read
  s2c,                \* tokens the server sent that the client has not read
  script,             \* the steps the client still has to take
  cl_state,           \* "away", "connecting", "talking", "closed"
  cl_kind,            \* the request the client makes, and whether by the rules
  prev,               \* the request of the connection before this one
  net,                \* how the network delivers the query payload: "whole", "split"
  trace               \* the messages of the connection in the order sent

VARIABLES
  \* the compressed code store
  fdict,              \* the store: its buckets by key and its key dimensions
  disk,               \* the file save_compress_int wrote, NoFile before
  last                \* the store's last operation, its arguments and its number

bucketVars == <<codes, bit_counts, behind>>

codecVars == <<cpc, origin, decoded, dr_B, dr_start, dr_out>>

kernelVars == <<query, max_length, base, block, grid, distances, uninit, upc, binary_codes,
                binary_code_index, loaded, dist_raw, distance>>

denseVars == <<vec_b, sub_vec_bs, dest, tpc, mi_dest, mpc>>

serverVars == <<spc, sock, served, closes, error, frame, logging_info>>

clientVars == <<c2s, s2c, script, cl_state, cl_kind, prev, net, trace>>

storeVars == <<fdict, disk, last>>

VARIABLE
  lsh                 \* the LSHash object: its planes, its table's keys, its last answer

lshVars == <<lsh>>

vars == <<bucketVars, codecVars, kernelVars, denseVars, serverVars, clientVars, storeVars, lshVars, lshVars>>

(***************************************************************************)
(* 64-bit words                                                            *)
(***************************************************************************)
WordBits == 0..63

ZeroWord == {}

BitOf(w, i) == IF i \in w THEN 1 ELSE 0

XOR(a, b) == (a \ b) \cup (b \ a)

AND(a, b) == a \cap b

OR(a, b) == a \cup b

\* a >> s and a << s on uint64_t, for 0 <= s < 64
SHR(a, s) == {i - s : i \in {j \in a : j >= s}}

SHL(a, s) == {i + s : i \in {j \in a : j + s <= 63}}

\* the word of a small natural number, and back (values below 2^30)
ToWord(n) == {i \in 0..29 : (n \div (2 ^ i)) % 2 = 1}

RECURSIVE ToNat(_)
ToNat(w) == IF w = {} THEN 0
            ELSE LET i == CHOOSE j \in w : TRUE IN 2 ^ i + ToNat(w \ {i})

\* the value of the l-th 16-bit limb of a word
Limb(w, l) == ToNat({i - 16 * l : i \in {j \in w : j \div 16 = l}})

\* a + b + cin modulo 2^64, added limb by limb with the carries
AddCarry(a, b, cin) ==
  LET s0 == Limb(a, 0) + Limb(b, 0) + cin
      s1 == Limb(a, 1) + Limb(b, 1) + s0 \div 65536
      s2 == Limb(a, 2) + Limb(b, 2) + s1 \div 65536
      s3 == Limb(a, 3) + Limb(b, 3) + s2 \div 65536
      s  == <<s0, s1, s2, s3>>
  IN  {i \in WordBits : (s[i \div 16 + 1] \div (2 ^ (i % 16))) % 2 = 1}

\* a + b modulo 2^64
ADD(a, b) == AddCarry(a, b, 0)

\* a - b modulo 2^64 (a + ~b + 1)
SUB(a, b) == AddCarry(a, WordBits \ b, 1)

RECURSIVE MulBits(_, _)
MulBits(a, bits) ==
  IF bits = {} THEN {}
  ELSE LET j == CHOOSE k \in bits : TRUE
       IN  ADD(SHL(a, j), MulBits(a, bits \ {j}))

\* a * b modulo 2^64: a shifted to every 1 bit of b, summed
MUL(a, b) == MulBits(a, b)

SetMax(S) == CHOOSE x \in S : \A y \in S : y <= x

\* unsigned comparison of two words
WordLess(a, b) == a # b /\ SetMax(XOR(a, b)) \in b

WordLE(a, b) == a = b \/ WordLess(a, b)

(***************************************************************************)
(* The population count of both kernels                                    *)
(***************************************************************************)
m1 == {i \in WordBits : i % 2 = 0}

m2 == {i \in WordBits : i % 4 < 2}

m4 == {i \in WordBits : i % 8 < 4}

h01 == {i \in WordBits : i % 8 = 0}

\* xor_r = (xor_r + (xor_r >> 4)) & m4, with the mask left out
FoldNibblesNoMask(x) == ADD(x, SHR(x, 4))

FoldNibbles(x) == AND(ADD(x, SHR(x, 4)), m4)

\* the masked add-reduce of hamming_dist and compressed_hamming_dist
PopReduce(xor_r) ==
  LET x1 == SUB(xor_r, AND(SHR(xor_r, 1), m1))
      x2 == ADD(AND(x1, m2), AND(SHR(x1, 2), m2))
      x3 == FoldNibbles(x2)
  IN  SHR(MUL(x3, h01), 56)

(***************************************************************************)
(* The bit-column codec                                                    *)
(*                                                                         *)
(* Arrays of the program are functions on 0..(n-1); a column's run array   *)
(* is a sequence, run number r being bit_counts[column][r - 1] of the      *)
(* kernel.                                                                 *)
(***************************************************************************)
Columns == 0..63

ArrayLen(a) == Cardinality(DOMAIN a)

EmptyArray == [k \in {} |-> ZeroWord]

\* the codes are in ascending order
IsSorted(cs) == \A k \in DOMAIN cs : k = 0 \/ WordLE(cs[k - 1], cs[k])

\* the value the tracked bit has before position k (0 before the first code)
BitBefore(cs, c, k) == IF k = 0 THEN 0 ELSE BitOf(cs[k - 1], c)

\* the positions at which a new run starts: the bit differs from the tracked one
RunStarts(cs, c) == {k \in DOMAIN cs : BitOf(cs[k], c) # BitBefore(cs, c, k)}

\* encode: the run lengths of column c over the sorted codes, the first run
\* counting 0 bits; the runs end when they add up to the entry count
EncodeColumn(cs, c) ==
  LET n      == ArrayLen(cs)
      starts == RunStarts(cs, c)
      bounds == {0} \cup starts \cup {n}
      nruns  == Cardinality(starts) + 1
      \* the r-th run starts at the (r-1)-th flip (the first at 0) and ends at the r-th
      from(r) == IF r = 1 THEN 0
                 ELSE CHOOSE b \in starts : Cardinality({x \in starts : x < b}) = r - 2
      upto(r) == IF r = nruns THEN n
                 ELSE CHOOSE b \in starts : Cardinality({x \in starts : x < b}) = r - 1
  IN  [r \in 1..nruns |-> upto(r) - from(r)]

Encode(cs) == [c \in Columns |-> EncodeColumn(cs, c)]

\* the inner while with >= for >: an entry is taken one run early
InnerCondInclusive(count_for_bits, i_for_batch, cbi, B, N) ==
  /\ count_for_bits >= i_for_batch + cbi
  /\ cbi < B
  /\ i_for_batch + cbi < N

\* the inner while without the batch start: the entries before it are not skipped
InnerCondNoSkip(count_for_bits, i_for_batch, cbi, B, N) ==
  /\ count_for_bits > cbi
  /\ cbi < B
  /\ i_for_batch + cbi < N

\* the condition of the kernel's inner while, for the batch entry cbi
InnerCond(count_for_bits, i_for_batch, cbi, B, N) ==
  /\ count_for_bits > i_for_batch + cbi
  /\ cbi < B
  /\ i_for_batch + cbi < N

\* the batch entries the inner while visits from current_binary_index on
InnerVisits(count_for_bits, i_for_batch, current_binary_index, B, N) ==
  {k \in current_binary_index..(B - 1) : InnerCond(count_for_bits, i_for_batch, k, B, N)}

\* bit_type before the first run of a column
FirstBitType == 0

\* The walk over one column: mem is the column's run array followed by what
\* lies behind it in device memory; st is the loop state. The result is the
\* set of batch entries whose bit of this column is set.
RECURSIVE WalkColumn(_, _, _, _, _)
WalkColumn(mem, N, i_for_batch, B, st) ==
  IF st.count_for_bits > N \/ st.bit_count_index >= Len(mem) THEN st.ones
  ELSE LET count == st.count_for_bits + mem[st.bit_count_index + 1]
       IN  IF count > N THEN st.ones
           ELSE LET visits == InnerVisits(count, i_for_batch, st.current_binary_index, B, N)
                IN  WalkColumn(mem, N, i_for_batch, B,
                      [count_for_bits       |-> count,
                       bit_count_index      |-> st.bit_count_index + 1,
                       bit_type             |-> 1 - st.bit_type,
                       current_binary_index |-> st.current_binary_index + Cardinality(visits),
                       ones |-> IF st.bit_type = 1 THEN st.ones \cup visits ELSE st.ones])

ColumnOnes(runs, tail, N, i_for_batch, B) ==
  WalkColumn(runs \o tail, N, i_for_batch, B,
    [count_for_bits |-> 0, bit_count_index |-> 0, bit_type |-> FirstBitType,
     current_binary_index |-> 0, ones |-> {}])

\* decodeRange: binary_codes[0..B-1] of the unit whose batch starts at
\* i_for_batch, as the column loop leaves it
DecodeRange(cols, tail, N, i_for_batch, B) ==
  LET walked == {<<c, ColumnOnes(cols[c], tail, N, i_for_batch, B)>> : c \in Columns}
  IN  [k \in 0..(B - 1) |-> {p[1] : p \in {q \in walked : k \in q[2]}}]

\* the entries of a batch that are codes of the bucket, in order
BatchCodes(cols, tail, N, i_for_batch, B) ==
  LET bc == DecodeRange(cols, tail, N, i_for_batch, B)
      n  == IF N - i_for_batch < B THEN N - i_for_batch ELSE B
  IN  [k \in 0..(n - 1) |-> bc[k]]

\* decode: one walk that covers all N codes
Decode(cols, tail, N) == BatchCodes(cols, tail, N, 0, N)

\* an array followed by another
Concat(a, b) ==
  LET n == ArrayLen(a)
  IN  [k \in 0..(n + ArrayLen(b) - 1) |-> IF k < n THEN a[k] ELSE b[k - n]]

(***************************************************************************)
(* Inputs                                                                  *)
(***************************************************************************)
\* largest bucket of the codec runs, and largest batch size besides the kernel's
MaxCodecN == 3

MaxBatch == 2

\* int batch_size = 100
batch_size == 100

CodecWords == {ZeroWord, {0}, {0, 1, 40, 63}, WordBits}

\* every array of n words of W
ArraysOf(W, n) == [0..(n - 1) -> W]

SortedBuckets(W, maxn) ==
  UNION {{cs \in ArraysOf(W, n) : IsSorted(cs)} : n \in 0..maxn}

\* a long bucket: runs of 8 equal codes, the top bit set from entry 98 on
LongCode(k) == SHL(ToWord(k \div 8), 30) \cup (IF k >= 98 THEN {63} ELSE {})

LongBucket(n) == [k \in 0..(n - 1) |-> LongCode(k)]

\* memory behind a run array: garbage that ends the walk at once, or a zero first
Behinds(n) == {<<n + 1>>, <<0, n + 1>>}

NoColumns == [c \in Columns |-> <<>>]

\* run arrays that are no encoder's output: zero runs inside, sums off the count
ForeignRuns(n) ==
  UNION {[1..len -> {0, 1, n}] : len \in 1..3}

(***************************************************************************)
(* The codec on its own: go_index, then the full decode, then the batched  *)
(* decode of the same columns.                                             *)
(***************************************************************************)
NoFrame == [fn |-> "none"]

NoKind == [req |-> "none", wf |-> FALSE, dev |-> "none", C |-> 0]

EmptyStore == [buckets |-> <<>>, key_dimensions |-> <<>>]

NoFile == [written |-> FALSE]

NoOp == [op |-> "none", n |-> 0]

StoreOff == fdict = EmptyStore /\ disk = NoFile /\ last = NoOp

NoLsh == [pc |-> "none"]

StoreIdle == StoreOff /\ lsh = NoLsh

ServerOff ==
  /\ spc = "off" /\ sock = "none" /\ served = 0 /\ closes = 0 /\ error = ""
  /\ frame = NoFrame /\ logging_info = <<>>
  /\ c2s = <<>> /\ s2c = <<>> /\ script = <<>>
  /\ cl_state = "away" /\ cl_kind = NoKind /\ prev = NoKind /\ net = "whole" /\ trace = <<>>

ServerIdle == StoreIdle /\ ServerOff

DenseIdle ==
  /\ vec_b = EmptyArray /\ sub_vec_bs = <<>> /\ dest = EmptyArray
  /\ tpc = <<>> /\ mi_dest = EmptyArray /\ mpc = "idle"

KernelIdle ==
  /\ query = ZeroWord /\ max_length = 0 /\ base = 0 /\ block = 0 /\ grid = 0
  /\ distances = EmptyArray /\ uninit = ZeroWord
  /\ upc = <<>> /\ binary_codes = <<>> /\ binary_code_index = <<>>
  /\ loaded = <<>> /\ dist_raw = <<>> /\ distance = <<>>

CodecInit ==
  /\ codes \in SortedBuckets(CodecWords, MaxCodecN) \cup {LongBucket(batch_size + 1)}
  /\ bit_counts = NoColumns
  /\ behind \in Behinds(ArrayLen(codes))
  /\ cpc = "raw" /\ origin = "none"
  /\ decoded = EmptyArray
  /\ dr_B \in (1..MaxBatch) \cup {batch_size}
  /\ dr_start = 0
  /\ dr_out = EmptyArray
  /\ KernelIdle
  /\ DenseIdle
  /\ ServerIdle

\* go_index / init_runtime_dict: the bucket is encoded into its columns
GoIndex ==
  /\ cpc = "raw"
  /\ bit_counts' = Encode(codes)
  /\ cpc' = "compressed" /\ origin' = "encode"
  /\ UNCHANGED <<codes, behind, decoded, dr_B, dr_start, dr_out, kernelVars, denseVars, serverVars, clientVars, storeVars, lshVars>>

\* columns that did not come from the encoder (a client's blob, a loaded file):
\* the encoder's, with column 0 replaced
ForeignColumns ==
  /\ cpc = "raw"
  /\ ArrayLen(codes) = MaxCodecN
  /\ \E r \in ForeignRuns(ArrayLen(codes)) :
       bit_counts' = [Encode(codes) EXCEPT ![0] = r]
  /\ cpc' = "compressed" /\ origin' = "foreign"
  /\ UNCHANGED <<codes, behind, decoded, dr_B, dr_start, dr_out, kernelVars, denseVars, serverVars, clientVars, storeVars, lshVars>>

FullDecode ==
  /\ cpc = "compressed"
  /\ decoded' = Decode(bit_counts, behind, ArrayLen(codes))
  /\ cpc' = "decoded"
  /\ UNCHANGED <<bucketVars, origin, dr_B, dr_start, dr_out, kernelVars, denseVars, serverVars, clientVars, storeVars, lshVars>>

\* decodeRange of the next batch; nothing but the columns is read
DecodeBatch ==
  /\ cpc = "decoded"
  /\ dr_start < ArrayLen(codes)
  /\ dr_out' = Concat(dr_out, BatchCodes(bit_counts, behind, ArrayLen(codes), dr_start, dr_B))
  /\ dr_start' = dr_start + dr_B
  /\ UNCHANGED <<bucketVars, cpc, origin, decoded, dr_B, kernelVars, denseVars, serverVars, clientVars, storeVars, lshVars>>

CodecNext == GoIndex \/ ForeignColumns \/ FullDecode \/ DecodeBatch

SpecCodec == CodecInit /\ [][CodecNext]_vars

\* C1: decoding the 64 run-length columns that encode produced for a sorted
\* sequence of N codes (N = 0 and N = 1 included) gives back exactly that
\* sequence.
C1_DecodeEncode ==
  (cpc = "decoded" /\ origin = "encode") => decoded = codes

C1_Witness ==
  /\ cpc = "decoded" /\ origin = "encode"
  /\ ArrayLen(codes) = MaxCodecN
  /\ codes[0] # codes[1] /\ codes[1] # codes[2]
  /\ decoded = codes

\* C2: for every column set, every N and every batch size B > 0 the batches
\* decodeRange yields for start = 0, B, 2B, ..., put one after another over
\* [0, N), are the full decode; every batch walks the columns from their start.
C2_BatchedIsFull ==
  (cpc = "decoded" /\ dr_start >= ArrayLen(codes)) => dr_out = decoded

C2_Witness ==
  /\ cpc = "decoded" /\ dr_start >= ArrayLen(codes)
  /\ dr_B < ArrayLen(codes)
  /\ \E k \in DOMAIN decoded : k >= dr_B /\ decoded[k] # ZeroWord
  /\ dr_out = decoded

(***************************************************************************)
(* compressed_hamming_dist: one launch, the units interleaved              *)
(***************************************************************************)
\* i = gridDim.x * blockDim.x * blockIdx.y + blockIdx.x * blockDim.x + threadIdx.x
\* with gridDim.y = 1, so blockIdx.y = 0
UnitIndex(bx, tx) == grid * block * 0 + bx * block + tx

Units == {UnitIndex(bx, tx) : bx \in 0..(grid - 1), tx \in 0..(block - 1)}

IForBatch(i) == i * batch_size

\* mask = (mask << 1) | 0x01, b times
RECURSIVE MaskLoop(_)
MaskLoop(mask_count) ==
  IF mask_count = 0 THEN ZeroWord ELSE OR(SHL(MaskLoop(mask_count - 1), 1), {0})

\* the clamp replaced by a mask of the low bits
QuantizeByMask(d, mask) == AND(d, mask)

\* if (distance > mask) distance = mask
Quantize(d, mask) == IF WordLess(mask, d) THEN mask ELSE d

\* offset = (base[0] - 1) - (i_for_batch + binary_code_index) % base[0]
Offset(index, b) == (b - 1) - (index % b)

\* the word of the output array a packed layout would use for a code index
StoreIndexPacked(index, b) == index \div (64 \div b)

\* the word written for a code index: distances[i_for_batch + binary_code_index]
StoreIndex(index, b) == index

\* distance << (offset * base[0])
Shifted(d, index, b) == SHL(d, Offset(index, b) * b)

KernelEnter(u) ==
  /\ upc[u] = "start"
  /\ IF IForBatch(u) < max_length
     THEN /\ binary_codes' = [binary_codes EXCEPT ![u] =
                DecodeRange(bit_counts, behind, max_length, IForBatch(u), batch_size)]
          /\ binary_code_index' = [binary_code_index EXCEPT ![u] = 0]
          /\ upc' = [upc EXCEPT ![u] = "load"]
     ELSE /\ upc' = [upc EXCEPT ![u] = "done"]
          /\ UNCHANGED <<binary_codes, binary_code_index>>
  /\ UNCHANGED <<bucketVars, codecVars, denseVars, serverVars, clientVars, storeVars, lshVars, query, max_length, base, block, grid, uninit,
                 distances, loaded, dist_raw, distance>>

\* the loop test, the popcount, the clamp and the read of the output word
UnitLoad(u) ==
  /\ upc[u] = "load"
  /\ LET bci   == binary_code_index[u]
         index == IForBatch(u) + bci
     IN  IF bci < batch_size /\ index < max_length
         THEN LET d == PopReduce(XOR(query, binary_codes[u][bci]))
              IN  /\ dist_raw' = [dist_raw EXCEPT ![u] = d]
                  /\ distance' = [distance EXCEPT ![u] = Quantize(d, MaskLoop(base))]
                  /\ loaded' = [loaded EXCEPT ![u] = distances[StoreIndex(index, base)]]
                  /\ upc' = [upc EXCEPT ![u] = "store"]
         ELSE /\ upc' = [upc EXCEPT ![u] = "done"]
              /\ UNCHANGED <<loaded, dist_raw, distance>>
  /\ UNCHANGED <<bucketVars, codecVars, denseVars, serverVars, clientVars, storeVars, lshVars, query, max_length, base, block, grid, uninit,
                 distances, binary_codes, binary_code_index>>

\* the write of the OR, and binary_code_index++
UnitStore(u) ==
  /\ upc[u] = "store"
  /\ LET index == IForBatch(u) + binary_code_index[u]
     IN  distances' = [distances EXCEPT ![StoreIndex(index, base)] =
                         OR(loaded[u], Shifted(distance[u], index, base))]
  /\ binary_code_index' = [binary_code_index EXCEPT ![u] = @ + 1]
  /\ upc' = [upc EXCEPT ![u] = "load"]
  /\ UNCHANGED <<bucketVars, codecVars, denseVars, serverVars, clientVars, storeVars, lshVars, query, max_length, base, block, grid, uninit,
                 binary_codes, loaded, dist_raw, distance>>

\* bounds of the launches explored
BlockSizes == {1, 2}

MaxGrid == 2

MaxSmallN == 4

MaxOver == 1

\* the bases for which every shift of the kernel stays inside the word
Bases == 1..8

\* those that divide the word into 64/b fields
PackBases == {b \in Bases : 64 % b = 0}

\* a query and codes at distances 3, 20, 0, 15 (then 42 and 63) from it
ExampleQuery == {40}

ExampleCode(k) ==
  CASE k = 0 -> {0, 1}
    [] k = 1 -> 0..18
    [] k = 2 -> {40}
    [] k = 3 -> 40..55
    [] k = 4 -> 0..42
    [] OTHER -> WordBits

ExampleBucket(n) == [k \in 0..(n - 1) |-> ExampleCode(k)]

\* one code for every distance 0..64 from the zero query: k low bits set
RampBucket == [k \in 0..Cardinality(WordBits) |-> 0..(k - 1)]

Queries == {ExampleQuery, ZeroWord, WordBits}

IsLong(cs) == ArrayLen(cs) >= batch_size

CodecIdle ==
  /\ cpc = "compressed" /\ origin = "encode" /\ decoded = EmptyArray
  /\ dr_B = 0 /\ dr_start = 0 /\ dr_out = EmptyArray

DeviceGarbage == {ZeroWord, WordBits}

KernelInit ==
  /\ codes \in {ExampleBucket(n) : n \in 0..MaxSmallN}
               \cup {RampBucket}
               \cup {LongBucket(n) : n \in batch_size..(batch_size + MaxOver)}
  /\ bit_counts = Encode(codes)
  /\ behind \in Behinds(ArrayLen(codes))
  /\ CodecIdle
  /\ query \in Queries
  /\ max_length = ArrayLen(codes)
  /\ base \in Bases
  /\ block \in BlockSizes
  /\ grid \in 1..MaxGrid
  \* the long buckets and the ramp are run for one query each, the others for
  \* the bases that divide the word
  /\ IsLong(codes) => (query = ExampleQuery /\ base = 4 /\ block = 1)
  /\ codes = RampBucket => (query = ZeroWord /\ block = 1 /\ grid = 1)
  /\ ArrayLen(codes) <= MaxSmallN => base \in PackBases
  /\ Len(behind) > 1 => (block = 1 /\ grid = 1)
  \* the output is handed over with drv.Out: the device buffer is allocated
  \* and not written before the launch, so the kernel's OR reads what was there
  /\ uninit \in DeviceGarbage
  /\ distances = [k \in 0..(max_length - 1) |-> uninit]
  /\ upc = [u \in Units |-> "start"]
  /\ binary_codes = [u \in Units |-> EmptyArray]
  /\ binary_code_index = [u \in Units |-> 0]
  /\ loaded = [u \in Units |-> ZeroWord]
  /\ dist_raw = [u \in Units |-> ZeroWord]
  /\ distance = [u \in Units |-> ZeroWord]
  /\ DenseIdle
  /\ ServerIdle

KernelNext ==
  \/ \E u \in Units : KernelEnter(u)
  \/ \E u \in Units : UnitLoad(u)
  \/ \E u \in Units : UnitStore(u)

SpecKernel == KernelInit /\ [][KernelNext]_vars

AllDone == \A u \in Units : upc[u] = "done"

(***************************************************************************)
(* What the launch is compared with                                        *)
(***************************************************************************)
Min(a, b) == IF a <= b THEN a ELSE b

\* the b-bit field of a word that starts at bit off
Field(w, off, b) == ToNat({i - off : i \in {j \in w : off <= j /\ j < off + b}})

\* the dense kernel's result for code i of the bucket, then the quantization
DenseQuantized(i) == Min(Cardinality(XOR(query, codes[i])), 2 ^ base - 1)

\* the code indices of unit u's batch
UnitBatch(u) ==
  {index \in IForBatch(u)..(IForBatch(u) + batch_size - 1) : index < max_length}

\* the output array after unit u ran alone on array d, start to end
RunUnit(d, u) ==
  LET bc == DecodeRange(bit_counts, behind, max_length, IForBatch(u), batch_size)
      word(index) ==
        Shifted(Quantize(PopReduce(XOR(query, bc[index - IForBatch(u)])), MaskLoop(base)),
                index, base)
  IN  [w \in DOMAIN d |->
         OR(d[w], UNION {word(index) :
                           index \in {j \in UnitBatch(u) : StoreIndex(j, base) = w}})]

\* the units 0..(n-1) run one after another
RECURSIVE RunUnits(_, _)
RunUnits(d, n) == IF n = 0 THEN d ELSE RunUnit(RunUnits(d, n - 1), n - 1)

SequentialRun ==
  RunUnits([k \in 0..(max_length - 1) |-> uninit], Cardinality(Units))

\* C3: for every bucket of N sorted codes encoded into 64 columns, every query
\* and every base b, the value the compressed-domain kernel produces for every
\* index i < N is min(popcount(query XOR codes[i]), 2^b - 1), the dense
\* kernel's distance quantized. (The value of index i is read from the field
\* the kernel writes it to.)
C3_KernelMatchesDense ==
  AllDone =>
    \A i \in 0..(max_length - 1) :
      Field(distances[i], Offset(i, base) * base, base) = DenseQuantized(i)

\* the same for the indices that belong to the batch of some unit, when the
\* device buffer happened to hold zeros
KernelMatchesDenseWhereCovered ==
  (AllDone /\ uninit = ZeroWord) =>
    \A i \in UNION {UnitBatch(u) : u \in Units} :
      Field(distances[i], Offset(i, base) * base, base) = DenseQuantized(i)

\* C5: for every base b the kernel packs 64/b quantized values per output
\* word, the value of code index `index` at bit offset
\* (b-1 - (index mod (64/b))) * b of word index div (64/b); with b = 4 four
\* consecutive codes at distances 3, 20, 0, 15 share one word and unpack to
\* 3, 15, 0, 15.
C5_PackedLayout ==
  AllDone =>
    \A i \in UNION {UnitBatch(u) : u \in Units} :
      LET per == 64 \div base
          off == (base - 1 - (i % per)) * base
      IN  off >= 0 /\ Field(distances[i \div per], off, base) = DenseQuantized(i)

\* C6: whatever the interleaving of the units of one launch, the final output
\* array is the one the units produce run one after another: no unit's
\* read-modify-write OR is lost, also where a batch ends inside a group of
\* 64/b code indices.
C6_InterleavingIsSequential == AllDone => distances = SequentialRun

C6_Witness ==
  /\ AllDone
  /\ \E u \in Units : u > 0 /\ UnitBatch(u) # {}
  /\ batch_size % (64 \div base) # 0
  /\ distances[batch_size - 1] # ZeroWord
  /\ distances[batch_size] # ZeroWord
  /\ distances = SequentialRun

\* C7: the quantization is an upper clamp only: for a distance d in 0..64 and
\* base b, q = d when d <= 2^b - 1 and q = 2^b - 1 otherwise.
C7_UpperClampOnly ==
  \A u \in Units :
    upc[u] = "store" =>
      LET d   == ToNat(dist_raw[u])
          q   == ToNat(distance[u])
          top == 2 ^ base - 1
      IN  /\ d \in 0..64
          /\ d <= top => q = d
          /\ d > top => q = top

C7_Witness ==
  \E u \in Units :
    /\ upc[u] = "store"
    /\ ToNat(dist_raw[u]) = 20 /\ base = 4
    /\ ToNat(distance[u]) = 15

(***************************************************************************)
(* hamming_dist, cuda_hamming_dist and multi_iteration                     *)
(***************************************************************************)
\* range(0, vector_len, 10000000)
SectionStep == 10000000

MaxDenseN == 3

DenseWords == {ZeroWord, WordBits, m1, {63}}

DenseQueries == {ZeroWord, ExampleQuery}

\* sections = range(0, vector_len, 10000000)[1:]: the number of split points
NumSections(n) == IF n = 0 THEN 0 ELSE (n - 1) \div SectionStep

\* numpy.split(vec_b, sections): the pieces in order, one more than sections
Split(v) ==
  LET n    == ArrayLen(v)
      nsec == NumSections(n)
      from(p) == (p - 1) * SectionStep
      upto(p) == IF p = nsec + 1 THEN n ELSE p * SectionStep
  IN  [p \in 1..(nsec + 1) |-> [k \in 0..(upto(p) - from(p) - 1) |-> v[from(p) + k]]]

\* multi_iteration is entered: the vector is split, dest = numpy.array([])
MultiIterationCall ==
  /\ mpc = "call"
  /\ sub_vec_bs' = Split(vec_b)
  /\ mi_dest' = EmptyArray
  /\ mpc' = "loop"
  /\ UNCHANGED <<bucketVars, codecVars, kernelVars, serverVars, clientVars, storeVars, lshVars, vec_b, dest, tpc>>

\* cuda_hamming_dist up to the launch: dest = numpy.array(vec_b), length = its size
DenseLaunch ==
  /\ mpc = "loop" /\ sub_vec_bs # <<>>
  /\ dest' = Head(sub_vec_bs)
  /\ tpc' = [i \in Units |-> "start"]
  /\ mpc' = "kernel"
  /\ UNCHANGED <<bucketVars, codecVars, kernelVars, serverVars, clientVars, storeVars, lshVars, vec_b, sub_vec_bs, mi_dest>>

\* one thread of hamming_dist: if (i < length[0]) b[i] = popcount(a[0] ^ b[i])
DenseThread(i) ==
  /\ mpc = "kernel" /\ tpc[i] = "start"
  /\ dest' = IF i < ArrayLen(dest)
             THEN [dest EXCEPT ![i] = PopReduce(XOR(query, dest[i]))]
             ELSE dest
  /\ tpc' = [tpc EXCEPT ![i] = "done"]
  /\ UNCHANGED <<bucketVars, codecVars, kernelVars, serverVars, clientVars, storeVars, lshVars, vec_b, sub_vec_bs, mi_dest, mpc>>

\* the launch returns when every thread is done; dest is concatenated
DenseCollect ==
  /\ mpc = "kernel" /\ \A i \in Units : tpc[i] = "done"
  /\ mi_dest' = Concat(mi_dest, dest)
  /\ sub_vec_bs' = Tail(sub_vec_bs)
  /\ mpc' = "loop"
  /\ UNCHANGED <<bucketVars, codecVars, kernelVars, serverVars, clientVars, storeVars, lshVars, vec_b, dest, tpc>>

MultiIterationReturn ==
  /\ mpc = "loop" /\ sub_vec_bs = <<>>
  /\ mpc' = "returned"
  /\ UNCHANGED <<bucketVars, codecVars, kernelVars, serverVars, clientVars, storeVars, lshVars, vec_b, sub_vec_bs, dest, tpc, mi_dest>>

DenseInit ==
  /\ codes = EmptyArray /\ bit_counts = NoColumns /\ behind = <<>>
  /\ cpc = "raw" /\ origin = "none" /\ decoded = EmptyArray
  /\ dr_B = 0 /\ dr_start = 0 /\ dr_out = EmptyArray
  /\ query \in DenseQueries
  /\ max_length = 0 /\ base = 0
  /\ block \in BlockSizes
  /\ grid \in 1..MaxGrid
  /\ distances = EmptyArray /\ uninit = ZeroWord
  /\ upc = <<>> /\ binary_codes = <<>> /\ binary_code_index = <<>>
  /\ loaded = <<>> /\ dist_raw = <<>> /\ distance = <<>>
  /\ vec_b \in UNION {ArraysOf(DenseWords, n) : n \in 0..MaxDenseN}
  /\ sub_vec_bs = <<>> /\ dest = EmptyArray /\ tpc = <<>> /\ mi_dest = EmptyArray
  /\ mpc = "call"
  /\ ServerIdle

DenseNext ==
  \/ MultiIterationCall
  \/ DenseLaunch
  \/ \E i \in Units : DenseThread(i)
  \/ DenseCollect
  \/ MultiIterationReturn

SpecDense == DenseInit /\ [][DenseNext]_vars

\* C4: for every 64-bit query and code the dense kernel's masked add-reduce
\* (64-bit wrap-around) gives exactly popcount(query XOR code), a value in
\* 0..64; the result of index i is a function of the query and code i alone
\* (an index no thread has reached still holds its code).
C4_DensePopcount ==
  mpc = "kernel" =>
    \A i \in DOMAIN dest :
      LET code == Head(sub_vec_bs)[i]
          n    == Cardinality(XOR(query, code))
      IN  IF i \in Units /\ tpc[i] = "done"
          THEN n \in 0..64 /\ dest[i] = ToWord(n)
          ELSE dest[i] = code

C4_Witness ==
  /\ mpc = "kernel"
  /\ \E i, j \in DOMAIN dest :
       /\ i \in Units /\ tpc[i] = "done" /\ dest[i] = ToWord(64)
       /\ j \in Units /\ tpc[j] = "done" /\ dest[j] = ToWord(32)

\* C8: for a multi_iteration request with a query and N codes, for every N
\* (also N above the number of threads launched, and above one piece of
\* 10,000,000), the reply has exactly N entries in input order and entry i is
\* popcount(query XOR codes[i]), in 0..64.
C8_MultiIterationReply ==
  mpc = "returned" =>
    /\ ArrayLen(mi_dest) = ArrayLen(vec_b)
    /\ \A i \in DOMAIN vec_b : mi_dest[i] = ToWord(Cardinality(XOR(query, vec_b[i])))

\* the same for the entries a thread of the launch exists for
MultiIterationWhereThreads ==
  mpc = "returned" =>
    /\ ArrayLen(mi_dest) = ArrayLen(vec_b)
    /\ \A i \in DOMAIN vec_b :
         mi_dest[i] = IF i \in Units THEN ToWord(Cardinality(XOR(query, vec_b[i])))
                      ELSE vec_b[i]


(***************************************************************************)
(* cuda_hamming_server.py: what travels on the socket.  A segment is what  *)
(* one send puts on the stream: s its text when it is a token or a decimal *)
(* string, raw its elements when it is binary, e the size of one element   *)
(* and n the number of bytes.                                              *)
(***************************************************************************)
MaxConns == 2

MaxReqCols == 2

ParseMax == 40

EmptyData == [s |-> "", n |-> 0, e |-> 1, raw |-> <<>>]

\* int(text): the text is a decimal string, and the number it writes
IsDecimal(text) == \E k \in 0..ParseMax : ToString(k) = text

IntOf(text) == CHOOSE k \in 0..ParseMax : ToString(k) = text

TextBytes(text) ==
  IF IsDecimal(text)
  THEN IF IntOf(text) < 10 THEN 1 ELSE 2
  ELSE CASE text = "cuda_hamming_dist_in_compressed_domain" -> 38
         [] text = "multi_iteration" -> 15
         [] text \in {"reset", "ready"} -> 5
         [] text = "done" -> 4
         [] OTHER -> 1

Txt(text) == [s |-> text, n |-> TextBytes(text), e |-> 1, raw |-> <<>>]

Raw(elems, size) == [s |-> "", n |-> size * Len(elems), e |-> size, raw |-> elems]

\* client.recv(k): blocks until bytes are there or the peer has closed
CanRecv(k) == k = 0 \/ c2s # <<>> \/ cl_state \in {"closed", "reset"}

\* the peer has reset the connection: recv and sendall raise socket.error
SockFails == cl_state = "reset"

\* the exception a failed receive raises
RecvError == IF SockFails THEN "socket.error" ELSE "ValueError"

\* the first k bytes of a segment, and what stays in the socket buffer
FirstBytes(seg, k) ==
  [s |-> IF seg.e = 1 THEN "?" ELSE "", n |-> k, e |-> seg.e,
   raw |-> SubSeq(seg.raw, 1, k \div seg.e)]

RestBytes(seg, k) ==
  [s |-> IF seg.e = 1 THEN "?" ELSE "", n |-> seg.n - k, e |-> seg.e,
   raw |-> SubSeq(seg.raw, (k \div seg.e) + 1, Len(seg.raw))]

RecvData(k) ==
  IF k = 0 \/ c2s = <<>> \/ SockFails THEN EmptyData
  ELSE IF Head(c2s).n <= k THEN Head(c2s)
  ELSE FirstBytes(Head(c2s), k)

RecvRest(k) ==
  IF k = 0 \/ c2s = <<>> \/ SockFails THEN c2s
  ELSE IF Head(c2s).n <= k THEN Tail(c2s)
  ELSE <<RestBytes(Head(c2s), k)>> \o Tail(c2s)

recv_size == 1024

\* the tokens the server answers with
NextToken == "next"

AckDoneAsNext == "next"

AckDone == "ok"

FlagDone == "done"

(***************************************************************************)
(* The client: a script of sends and waits, taken in order.                *)
(***************************************************************************)
SendStep(seg, role) == [do |-> "send", seg |-> seg, role |-> role]

WaitStep(tok) == [do |-> "wait", seg |-> EmptyData, role |-> tok]

CloseStep == [do |-> "close", seg |-> EmptyData, role |-> ""]

ResetStep == [do |-> "reset", seg |-> EmptyData, role |-> ""]

\* one serialized column: length-prefixed uint32 run arrays
BlobOf(c) == IF c % 2 = 1 THEN <<2, 300, 2, 1, 3>> ELSE <<1, 4, 3, 1, 257, 2>>

ItemIds == 3

ColSteps(C) ==
  [i \in 1..(3 * C) |->
     CASE i % 3 = 1 -> SendStep(Txt(ToString(4 * Len(BlobOf((i + 2) \div 3)))), "Lc")
       [] i % 3 = 2 -> WaitStep("next")
       [] OTHER     -> SendStep(Raw(BlobOf(i \div 3), 4), "blob")]

QueryPrologue(selector, q) ==
  << SendStep(Txt(selector), "selector"), WaitStep("next"),
     SendStep(Txt(ToString(8 * Len(q))), "L1"), WaitStep("next"),
     SendStep(Raw(q, 8), "query"), WaitStep("next") >>

\* a compressed-domain request with C columns, as the protocol lays it down
\* for the client (the client's code is not part of the sources)
CdScript(C, flag) ==
  QueryPrologue("cuda_hamming_dist_in_compressed_domain", <<ExampleQuery>>)
    \o << SendStep(Txt(ToString(C)), "C"), WaitStep("next") >>
    \o ColSteps(C)
    \o << SendStep(Txt("done"), "done"), WaitStep("ok"),
          SendStep(Txt(ToString(ItemIds)), "count"), WaitStep("next"),
          SendStep(Txt(flag), "flag"), WaitStep("done"),
          SendStep(Txt("ready"), "ready"), WaitStep("result") >>

\* a multi_iteration request over the codes v, likewise
MiScript(q, v) ==
  QueryPrologue("multi_iteration", q)
    \o << SendStep(Raw(v, 8), "codes"),
          SendStep(Txt("ready"), "ready"), WaitStep("result") >>

\* a script that leaves the rules at step k: a wrong token, or a close
Wrong(sc, k) ==
  SubSeq(sc, 1, k - 1) \o <<SendStep(Txt("x"), "x")>> \o SubSeq(sc, k + 1, Len(sc))

Truncated(sc, k) == SubSeq(sc, 1, k - 1) \o <<CloseStep>>

Aborted(sc, k) == SubSeq(sc, 1, k - 1) \o <<ResetStep>>

\* each with the kind of the departure: a wrong token, a close, a reset
Deviations(sc) ==
  {<<"wrong", Wrong(sc, k)>> : k \in {j \in 1..Len(sc) : sc[j].do = "send"}}
    \cup {<<"close", Truncated(sc, k)>> : k \in 1..Len(sc)}
    \cup {<<"reset", Aborted(sc, k)>> : k \in 1..Len(sc)}

MiCodes == {<<ZeroWord, {63}>>, <<WordBits>>}

\* the query as the client sends it: one word, or an array of two
MiQueries == {<<ExampleQuery>>, <<ExampleQuery, m1>>}

Kind(req, dev, C) == [req |-> req, wf |-> dev = "none", dev |-> dev, C |-> C]

Requests ==
  {<<Kind("cd", "none", C), CdScript(C, f)>> : C \in 0..MaxReqCols, f \in {"y", "n"}}
    \cup {<<Kind("cd", d[1], MaxReqCols), d[2]>> :
            d \in Deviations(CdScript(MaxReqCols, "y"))}
    \cup {<<Kind("mi", "none", 0), MiScript(q, v)>> : q \in MiQueries, v \in MiCodes}
    \cup {<<Kind("mi", d[1], 0), d[2]>> :
            d \in Deviations(MiScript(<<ExampleQuery>>, <<WordBits>>))}
    \cup {<<Kind("reset", "none", 0), <<SendStep(Txt("reset"), "selector")>>>>,
          <<Kind("other", "none", 0), <<SendStep(Txt("status"), "selector")>>>>}

notServer == <<bucketVars, codecVars, kernelVars, denseVars, storeVars, lshVars>>

ClientConnect ==
  /\ cl_state \in {"away", "talking", "closed", "reset"}
  /\ spc = "accept" /\ sock \in {"none", "closed"}
  /\ served < MaxConns
  /\ \E r \in Requests : cl_kind' = r[1] /\ script' = r[2]
  /\ prev' = cl_kind /\ net' = "whole"
  /\ cl_state' = "connecting"
  /\ c2s' = <<>> /\ s2c' = <<>> /\ trace' = <<>>
  /\ UNCHANGED <<serverVars, notServer>>

ClientSend ==
  /\ cl_state = "talking" /\ sock = "open"
  /\ script # <<>> /\ Head(script).do = "send"
  /\ c2s' = Append(c2s, Head(script).seg)
  /\ trace' = Append(trace, <<"C", Head(script).role>>)
  /\ script' = Tail(script)
  /\ UNCHANGED <<s2c, cl_state, cl_kind, prev, net, serverVars, notServer>>

ClientWait ==
  /\ cl_state = "talking"
  /\ script # <<>> /\ Head(script).do = "wait"
  /\ s2c # <<>> /\ Head(s2c) = Head(script).role
  /\ s2c' = Tail(s2c)
  /\ script' = Tail(script)
  /\ UNCHANGED <<c2s, cl_state, cl_kind, prev, net, trace, serverVars, notServer>>

ClientClose ==
  /\ cl_state = "talking"
  /\ script # <<>> /\ Head(script).do = "close"
  /\ cl_state' = "closed"
  /\ script' = <<>>
  /\ UNCHANGED <<c2s, s2c, cl_kind, prev, net, trace, serverVars, notServer>>

\* the client aborts the connection: what it sent and was not read is dropped
ClientReset ==
  /\ cl_state = "talking"
  /\ script # <<>> /\ Head(script).do = "reset"
  /\ cl_state' = "reset"
  /\ script' = <<>> /\ c2s' = <<>>
  /\ UNCHANGED <<s2c, cl_kind, prev, net, trace, serverVars, notServer>>

\* the network hands the query payload over in two pieces, the first of k bytes
FragmentCuts == {4, 8}

Fragment ==
  /\ spc \in {"cd_vec_a", "mi_vec_a"} /\ net = "whole"
  /\ c2s # <<>> /\ Head(c2s).e = 8
  /\ \E k \in FragmentCuts :
       /\ k < Head(c2s).n
       /\ c2s' = <<FirstBytes(Head(c2s), k), RestBytes(Head(c2s), k)>> \o Tail(c2s)
  /\ net' = "split"
  /\ UNCHANGED <<s2c, script, cl_state, cl_kind, prev, trace, serverVars, notServer>>


(***************************************************************************)
(* The server: loop(), and the two handlers it dispatches to.              *)
(***************************************************************************)
default_block == 500

default_grid == 2

RaiseUncaught(e) == spc' = "dead" /\ error' = e /\ frame' = NoFrame

\* an exception leaves the handler; loop() prints it and closes the client
Raise(e) == spc' = "close" /\ error' = e /\ frame' = NoFrame

\* client.sendall(tok)
Send(at, tok, to) ==
  /\ spc = at
  /\ IF SockFails
     THEN Raise("socket.error") /\ UNCHANGED <<s2c, trace>>
     ELSE /\ s2c' = Append(s2c, tok)
          /\ trace' = Append(trace, <<"S", tok>>)
          /\ spc' = to
          /\ UNCHANGED <<error, frame>>
  /\ UNCHANGED <<sock, served, closes, logging_info>>
  /\ UNCHANGED <<c2s, script, cl_state, cl_kind, prev, net, notServer>>

\* what a receiving step leaves alone
RecvFrame == UNCHANGED <<sock, served, closes, logging_info, s2c, script, cl_state, cl_kind, prev, net, trace, notServer>>

\* a step that touches only the handler
LocalFrame == UNCHANGED <<sock, served, closes, logging_info, clientVars, notServer>>

CdFrame ==
  [fn |-> "call_cuda_hamming_dist_in_compressed_domain", length |-> "",
   vec_a |-> <<>>, cols_vec_length |-> 0, cols_length |-> 0,
   columns_vector |-> <<>>, image_ids |-> <<>>, vlq_mode |-> "",
   reshape_columns_vector |-> <<>>]

MiFrame ==
  [fn |-> "call_multi_iteration", length |-> "", vec_a |-> <<>>,
   binary_codes |-> <<>>, hamming_distances |-> EmptyArray]

Accept ==
  /\ spc = "accept" /\ cl_state = "connecting"
  /\ sock' = "open" /\ served' = served + 1 /\ error' = ""
  /\ cl_state' = "talking"
  /\ spc' = "selector"
  /\ UNCHANGED <<closes, frame, logging_info, c2s, s2c, script, cl_kind, prev, net, trace, notServer>>

\* a dispatch that counts a run for every request that names a handler
RecvSelectorCountsRun ==
  /\ spc = "selector" /\ CanRecv(recv_size)
  /\ c2s' = RecvRest(recv_size)
  /\ LET data == RecvData(recv_size)
     IN  IF SockFails
         THEN \* socket.error outside the inner try: no handler of loop()
              \* catches it, loop() is left and the process ends
              /\ spc' = "dead" /\ error' = "socket.error"
              /\ UNCHANGED <<sock, closes, frame>>
         ELSE IF data.n = 0
         THEN /\ spc' = "accept" /\ sock' = "closed" /\ closes' = closes + 1
              /\ UNCHANGED <<error, frame>>
         ELSE /\ UNCHANGED <<sock, closes, error>>
              /\ CASE data.s = "cuda_hamming_dist_in_compressed_domain" ->
                        spc' = "cd_next1" /\ frame' = CdFrame
                   [] data.s = "multi_iteration" ->
                        spc' = "mi_next1" /\ frame' = MiFrame
                   [] data.s = "reset" -> spc' = "reset" /\ frame' = frame
                   [] OTHER -> spc' = "log" /\ frame' = frame
  /\ logging_info' = IF ~SockFails /\ RecvData(recv_size).s \in {"cuda_hamming_dist_in_compressed_domain", "multi_iteration"}
                      THEN [k \in DOMAIN logging_info \cup {<<"cuda_run", 0>>} |-> 1]
                      ELSE logging_info
  /\ UNCHANGED <<served, s2c, script, cl_state, cl_kind, prev, net, trace, notServer>>

\* data = client.recv(1024), and the dispatch on it
RecvSelector ==
  /\ spc = "selector" /\ CanRecv(recv_size)
  /\ c2s' = RecvRest(recv_size)
  /\ LET data == RecvData(recv_size)
     IN  IF SockFails
         THEN \* socket.error outside the inner try: no handler of loop()
              \* catches it, loop() is left and the process ends
              /\ spc' = "dead" /\ error' = "socket.error"
              /\ UNCHANGED <<sock, closes, frame>>
         ELSE IF data.n = 0
         THEN /\ spc' = "accept" /\ sock' = "closed" /\ closes' = closes + 1
              /\ UNCHANGED <<error, frame>>
         ELSE /\ UNCHANGED <<sock, closes, error>>
              /\ CASE data.s = "cuda_hamming_dist_in_compressed_domain" ->
                        spc' = "cd_next1" /\ frame' = CdFrame
                   [] data.s = "multi_iteration" ->
                        spc' = "mi_next1" /\ frame' = MiFrame
                   [] data.s = "reset" -> spc' = "reset" /\ frame' = frame
                   [] OTHER -> spc' = "log" /\ frame' = frame
  /\ UNCHANGED <<served, logging_info, s2c, script, cl_state, cl_kind, prev, net, trace, notServer>>

ResetKeepsValues(info) == info

\* for key in logging_info: logging_info[key] = 0
reset_logging_info(info) == [key \in DOMAIN info |-> 0]

ResetLoggingInfo ==
  /\ spc = "reset"
  /\ logging_info' = reset_logging_info(logging_info)
  /\ spc' = "close"
  /\ UNCHANGED <<sock, served, closes, error, frame, clientVars, notServer>>

LogDataAndReply == Send("log", NextToken, "close")

LogData ==
  /\ spc = "log"
  /\ spc' = "close"
  /\ UNCHANGED <<sock, served, closes, error, frame, logging_info, clientVars, notServer>>

CloseClient ==
  /\ spc = "close"
  /\ sock' = "closed" /\ closes' = closes + 1
  /\ spc' = "accept"
  /\ UNCHANGED <<served, error, frame, logging_info, clientVars, notServer>>

(***************************************************************************)
(* call_cuda_hamming_dist_in_compressed_domain                             *)
(***************************************************************************)
CdSendNext1 == Send("cd_next1", NextToken, "cd_length")

\* a receive of a text: stored as received, empty raises
RecvText(at, field, to) ==
  /\ spc = at /\ CanRecv(recv_size)
  /\ c2s' = RecvRest(recv_size)
  /\ LET data == RecvData(recv_size)
     IN  IF data.n = 0
         THEN Raise(RecvError)
         ELSE /\ frame' = [frame EXCEPT ![field] = data.s]
              /\ spc' = to /\ error' = error
  /\ RecvFrame

\* a receive of a decimal string: empty raises, and so does int() of a text
\* that is no number
RecvInt(at, field, to) ==
  /\ spc = at /\ CanRecv(recv_size)
  /\ c2s' = RecvRest(recv_size)
  /\ LET data == RecvData(recv_size)
     IN  IF data.n = 0 \/ ~IsDecimal(data.s)
         THEN Raise(RecvError)
         ELSE /\ frame' = [frame EXCEPT ![field] = IntOf(data.s)]
              /\ spc' = to /\ error' = error
  /\ RecvFrame

\* vec_a = client.recv(int(length)), then numpy.frombuffer(vec_a, uint64)
RecvVecA(at, to) ==
  /\ spc = at
  /\ IF ~IsDecimal(frame.length)
     THEN Raise("ValueError") /\ c2s' = c2s
     ELSE /\ CanRecv(IntOf(frame.length))
          /\ c2s' = RecvRest(IntOf(frame.length))
          /\ LET data == RecvData(IntOf(frame.length))
             IN  IF data.n = 0 \/ data.n % 8 # 0
                 THEN Raise(RecvError)
                 ELSE /\ frame' = [frame EXCEPT !.vec_a = data.raw]
                      /\ spc' = to /\ error' = error
  /\ RecvFrame

\* a receive that must be the token, else raises
RecvToken(at, tok, to) ==
  /\ spc = at /\ CanRecv(recv_size)
  /\ c2s' = RecvRest(recv_size)
  /\ IF RecvData(recv_size).s # tok
     THEN Raise(RecvError)
     ELSE spc' = to /\ UNCHANGED <<error, frame>>
  /\ RecvFrame

CdRecvLength == RecvText("cd_length", "length", "cd_next2")

CdSendNext2 == Send("cd_next2", NextToken, "cd_vec_a")

CdRecvVecA == RecvVecA("cd_vec_a", "cd_next3")

CdSendNext3 == Send("cd_next3", NextToken, "cd_cols_vec_length")

CdRecvColsVecLength == RecvInt("cd_cols_vec_length", "cols_vec_length", "cd_next4")

CdSendNext4 == Send("cd_next4", NextToken, "cd_while")

\* while cols_vec_length > 0: cols_length = int(client.recv(1024))
CdRecvColsLength ==
  /\ spc = "cd_while" /\ frame.cols_vec_length > 0
  /\ RecvInt("cd_while", "cols_length", "cd_next5")

CdSendNext5 == Send("cd_next5", NextToken, "cd_columns")

\* columns = conn.recv_long_vector(client, None); columns_vector.append(columns)
CdRecvColumns ==
  /\ spc = "cd_columns" /\ CanRecv(recv_size)
  /\ IF c2s = <<>> \/ SockFails
     THEN Raise(RecvError) /\ c2s' = c2s
     ELSE /\ c2s' = Tail(c2s)
          /\ frame' = [frame EXCEPT !.columns_vector = Append(@, Head(c2s)),
                                    !.cols_vec_length = @ - 1]
          /\ spc' = "cd_while" /\ error' = error
  /\ RecvFrame

\* the loop is over: done = client.recv(1024)
CdRecvDone ==
  /\ spc = "cd_while" /\ frame.cols_vec_length <= 0
  /\ RecvToken("cd_while", "done", "cd_ok")

CdSendOk == Send("cd_ok", AckDone, "cd_image_ids")

\* image_ids = numpy.zeros(int(image_ids_leng)).tolist()
CdRecvImageIds ==
  /\ spc = "cd_image_ids" /\ CanRecv(recv_size)
  /\ c2s' = RecvRest(recv_size)
  /\ LET data == RecvData(recv_size)
     IN  IF data.n = 0 \/ ~IsDecimal(data.s)
         THEN Raise(RecvError)
         ELSE /\ frame' = [frame EXCEPT !.image_ids = [k \in 1..IntOf(data.s) |-> 0]]
              /\ spc' = "cd_next6" /\ error' = error
  /\ RecvFrame

CdSendNext6 == Send("cd_next6", NextToken, "cd_vlq_mode")

CdRecvVlqMode == RecvText("cd_vlq_mode", "vlq_mode", "cd_done")

CdSendDone == Send("cd_done", FlagDone, "cd_ready")

CdRecvReady == RecvToken("cd_ready", "ready", "cd_reshape")

\* one received column cut into its run arrays, each truncated to a byte
\* under the vlq flag
RECURSIVE ReshapeFrom(_, _, _)
ReshapeFrom(np_columns, idx, vlq) ==
  IF idx > Len(np_columns) THEN <<>>
  ELSE LET len      == np_columns[idx]
           np_array == SubSeq(np_columns, idx + 1, Min(idx + len, Len(np_columns)))
           kept     == IF vlq = "y"
                       THEN [k \in DOMAIN np_array |-> np_array[k] % 256]
                       ELSE np_array
       IN  <<kept>> \o ReshapeFrom(np_columns, idx + 1 + len, vlq)

CdReshape ==
  /\ spc = "cd_reshape"
  /\ IF \E c \in DOMAIN frame.columns_vector : frame.columns_vector[c].n % 4 # 0
     THEN Raise("ValueError")
     ELSE /\ frame' = [frame EXCEPT !.reshape_columns_vector =
                         [c \in DOMAIN frame.columns_vector |->
                            ReshapeFrom(frame.columns_vector[c].raw, 1, frame.vlq_mode)]]
          /\ spc' = "cd_call" /\ error' = error
  /\ LocalFrame

\* the call passes four arguments to a method that takes three: TypeError.
\* log_info and conn.send_long_vector, which follow it, are never reached.
CdCall ==
  /\ spc = "cd_call"
  /\ Raise("TypeError")
  /\ LocalFrame

(***************************************************************************)
(* call_multi_iteration                                                    *)
(***************************************************************************)
MiSendNext1 == Send("mi_next1", NextToken, "mi_length")

MiRecvLength == RecvText("mi_length", "length", "mi_next2")

MiSendNext2 == Send("mi_next2", NextToken, "mi_vec_a")

MiRecvVecA == RecvVecA("mi_vec_a", "mi_next3")

MiSendNext3 == Send("mi_next3", NextToken, "mi_binary_codes")

\* binary_codes = conn.recv_long_vector(client)
MiRecvBinaryCodes ==
  /\ spc = "mi_binary_codes" /\ CanRecv(recv_size)
  /\ IF c2s = <<>> \/ SockFails
     THEN Raise(RecvError) /\ c2s' = c2s
     ELSE /\ c2s' = Tail(c2s)
          /\ frame' = [frame EXCEPT !.binary_codes = Head(c2s).raw]
          /\ spc' = "mi_ready" /\ error' = error
  /\ RecvFrame

MiRecvReady == RecvToken("mi_ready", "ready", "mi_call")

\* the kernel launch over one piece: thread i rewrites entry i, and the
\* entries past the last thread keep the code they were copied from
CudaHammingDist(q, sub_vec, nthreads) ==
  [i \in DOMAIN sub_vec |->
     IF i < nthreads THEN PopReduce(XOR(q, sub_vec[i])) ELSE sub_vec[i]]

RECURSIVE ConcatAll(_, _)
ConcatAll(pieces, p) ==
  IF p > Len(pieces) THEN EmptyArray
  ELSE Concat(pieces[p], ConcatAll(pieces, p + 1))

MultiIteration(q, v, nthreads) ==
  LET pieces == Split(v)
  IN  ConcatAll([p \in DOMAIN pieces |-> CudaHammingDist(q, pieces[p], nthreads)], 1)

\* hamming_distances = cuda_hamming_obj.multi_iteration(vec_a, binary_codes)
\* the launch inside it may fail (no device, a block or grid the device
\* refuses): pycuda raises, and the exception leaves the handler
MiCall ==
  /\ spc = "mi_call"
  /\ \/ /\ frame' = [frame EXCEPT !.hamming_distances =
                      MultiIteration(frame.vec_a[1],
                                     [k \in 0..(Len(frame.binary_codes) - 1) |-> frame.binary_codes[k + 1]],
                                     block * grid)]
        /\ spc' = "mi_log_info"
        /\ UNCHANGED error
     \/ Raise("pycuda.driver.Error")
  /\ LocalFrame

\* log_info(hamming_distances): the array is no (distances, time) pair, so
\* hamming_distances[0].shape[0] raises IndexError before a statistic is
\* touched.  The reply, which follows it, is never reached.
MiLogInfo ==
  /\ spc = "mi_log_info"
  /\ Raise("IndexError")
  /\ LocalFrame

ServerInit ==
  /\ codes = EmptyArray /\ bit_counts = NoColumns /\ behind = <<>>
  /\ CodecIdle
  /\ query = ZeroWord /\ max_length = 0 /\ base = 0
  /\ block = default_block /\ grid = default_grid
  /\ distances = EmptyArray /\ uninit = ZeroWord
  /\ upc = <<>> /\ binary_codes = <<>> /\ binary_code_index = <<>>
  /\ loaded = <<>> /\ dist_raw = <<>> /\ distance = <<>>
  /\ DenseIdle
  /\ StoreIdle
  /\ spc = "accept" /\ sock = "none" /\ served = 0 /\ closes = 0 /\ error = ""
  /\ frame = NoFrame /\ logging_info = <<>>
  /\ c2s = <<>> /\ s2c = <<>> /\ script = <<>>
  /\ cl_state = "away" /\ cl_kind = NoKind /\ prev = NoKind /\ net = "whole" /\ trace = <<>>

ServerNext ==
  \/ ClientConnect \/ ClientSend \/ ClientWait \/ ClientClose \/ ClientReset
  \/ Fragment
  \/ Accept \/ RecvSelector \/ ResetLoggingInfo \/ LogData \/ CloseClient
  \/ CdSendNext1 \/ CdRecvLength \/ CdSendNext2 \/ CdRecvVecA \/ CdSendNext3
  \/ CdRecvColsVecLength \/ CdSendNext4 \/ CdRecvColsLength \/ CdSendNext5
  \/ CdRecvColumns \/ CdRecvDone \/ CdSendOk \/ CdRecvImageIds \/ CdSendNext6
  \/ CdRecvVlqMode \/ CdSendDone \/ CdRecvReady \/ CdReshape \/ CdCall
  \/ MiSendNext1 \/ MiRecvLength \/ MiSendNext2 \/ MiRecvVecA \/ MiSendNext3
  \/ MiRecvBinaryCodes \/ MiRecvReady \/ MiCall \/ MiLogInfo

SpecServer == ServerInit /\ [][ServerNext]_vars


(***************************************************************************)
(* The order of the messages of a compressed-domain request                *)
(***************************************************************************)
IsPrefix(a, b) == Len(a) <= Len(b) /\ \A i \in 1..Len(a) : a[i] = b[i]

ExpectedColumns(C) ==
  [i \in 1..(3 * C) |->
     CASE i % 3 = 1 -> <<"C", "Lc">>
       [] i % 3 = 2 -> <<"S", "next">>
       [] OTHER     -> <<"C", "blob">>]

ExpectedOrder(C) ==
  << <<"C", "selector">>,
     <<"S", "next">>, <<"C", "L1">>,
     <<"S", "next">>, <<"C", "query">>,
     <<"S", "next">>, <<"C", "C">>,
     <<"S", "next">> >>
    \o ExpectedColumns(C)
    \o << <<"C", "done">>, <<"S", "ok">>,
          <<"C", "count">>, <<"S", "next">>,
          <<"C", "flag">>, <<"S", "done">>,
          <<"C", "ready">> >>

WellFormedCompressed == cl_kind.req = "cd" /\ cl_kind.wf

\* the server has closed the connection of the client that is there now
ServerClosed == sock = "closed" /\ cl_state # "connecting"

ResultSent == \E k \in DOMAIN trace : trace[k] = <<"S", "result">>

\* C9: in a well-formed compressed-domain request the messages are sent in
\* the order next, L1, next, query, next, C, next, then (Lc, next, blob) C
\* times, done, ok, item-id count, next, flag, done, ready; once the server
\* has read "ready" the whole sequence has happened, and a result is never
\* sent before the client's "ready".
C9_MessageOrder ==
  WellFormedCompressed =>
    /\ IsPrefix(trace, ExpectedOrder(cl_kind.C))
    /\ spc \in {"cd_reshape", "cd_call"} => trace = ExpectedOrder(cl_kind.C)
    /\ \A k \in DOMAIN trace :
         trace[k] = <<"S", "result">> =>
           \E j \in 1..(k - 1) : trace[j] = <<"C", "ready">>

C9_Witness ==
  /\ WellFormedCompressed /\ cl_kind.C >= 2
  /\ spc = "cd_call"
  /\ trace = ExpectedOrder(cl_kind.C)
  /\ Len(frame.columns_vector) = cl_kind.C

\* C10: a well-formed compressed-domain request is answered: by the time the
\* server has closed the connection, the kernel's result has been sent.
C10_ResultBeforeClose ==
  (WellFormedCompressed /\ ServerClosed) => ResultSent

\* what happens instead: the request runs through "ready", the kernel call
\* raises, and the connection is closed with nothing sent after "done"
CompressedRequestEndsInTypeError ==
  (WellFormedCompressed /\ ServerClosed /\ net = "whole") =>
    /\ error = "TypeError"
    /\ trace = ExpectedOrder(cl_kind.C)
    /\ script = <<WaitStep("result")>>

\* the same for multi_iteration: the reply is never sent
MultiIterationEndsInIndexError ==
  (cl_kind.req = "mi" /\ cl_kind.wf /\ ServerClosed /\ net = "whole") =>
    /\ error \in {"IndexError", "pycuda.driver.Error"}
    /\ ~ResultSent
    /\ script = <<WaitStep("result")>>


(***************************************************************************)
(* The receive of the query payload                                        *)
(***************************************************************************)
WellFormedQuery == cl_kind.wf /\ cl_kind.req \in {"cd", "mi"} /\ cl_state # "connecting"

QueryReceived == spc \in {"cd_next3", "mi_next3"}

QueryComplete ==
  /\ QueryReceived => 8 * Len(frame.vec_a) = IntOf(frame.length)
  /\ error # "ValueError"

\* C11: when the client declares a payload length L, the server's receive of
\* the query yields exactly the L bytes sent, also when the socket delivers
\* them in several partial reads: the server goes on with the whole payload,
\* never with a shorter one, and does not fail on a partial read.
C11_ReceivesDeclaredLength == WellFormedQuery => QueryComplete

\* what does hold: the payload is whole when the socket delivers it in one piece
QueryCompleteWhenUnsplit == (WellFormedQuery /\ net = "whole") => QueryComplete


(***************************************************************************)
(* Departures from the handshake                                           *)
(***************************************************************************)
\* a request that leaves the handshake inside a handler: a wrong token, or
\* the peer closing, which the next receive reads as empty
HandshakeDeviation(k) == k.req \in {"cd", "mi"} /\ k.dev \in {"wrong", "close"}

\* the departure costs the request only: nothing is sent as a result, the
\* server lives, and when the connection is closed the loop is at accept again
DeviationAbortsRequest ==
  (HandshakeDeviation(cl_kind) /\ cl_state # "connecting") =>
    /\ ~ResultSent
    /\ spc # "dead"
    /\ sock = "closed" => (spc = "accept" /\ closes = served)

\* the connection after such a departure is accepted and taken through its
\* handshake like any other
NextAfterDeviationIsTaken ==
  /\ HandshakeDeviation(prev) /\ WellFormedCompressed
  /\ spc = "cd_call" /\ trace = ExpectedOrder(cl_kind.C)

\* C12: in both handlers a handshake deviation (a wrong token where "done" or
\* "ready" is expected, an empty read because the peer closed, a non-numeric
\* length) aborts the current request only: no result is sent, the connection
\* is closed, the accept loop continues, and a well-formed connection that
\* follows is served correctly, that is, it has its result when it is closed.
C12_DeviationAbortsOnlyRequest ==
  /\ DeviationAbortsRequest
  /\ (HandshakeDeviation(prev) /\ WellFormedQuery /\ ServerClosed) => ResultSent


(***************************************************************************)
(* One connection at a time                                                *)
(***************************************************************************)
\* while loop() runs: a connection is accepted only when every earlier one
\* has been closed, and none is closed twice
OneAtATimeWhileRunning ==
  /\ closes <= served /\ served <= closes + 1
  /\ spc = "accept" => closes = served
  /\ sock = "open" <=> served = closes + 1

\* C13: the service handles one connection at a time: after an accept the
\* next accept happens only when the request has run to its end or aborted
\* and its client socket has been closed, and every accepted connection is
\* closed exactly once, also the last one the server accepts.
C13_OneConnectionAtATime ==
  /\ OneAtATimeWhileRunning
  /\ spc = "dead" => closes = served


(***************************************************************************)
(* Errors of the kernel dispatch                                           *)
(***************************************************************************)
KernelErrors == {"pycuda.driver.Error", "TypeError"}

\* C14: an error raised by the kernel dispatch while a request is served is
\* caught at the request loop: the request is aborted, its connection is
\* closed, and the server is not terminated but accepts again.
C14_KernelErrorCaught ==
  error \in KernelErrors =>
    /\ spc \in {"close", "accept"}
    /\ spc = "accept" => (sock = "closed" /\ closes = served)
    /\ cl_state # "connecting" => ~ResultSent

C14_Witness ==
  /\ error = "pycuda.driver.Error"
  /\ prev.req = "mi" /\ prev.wf
  /\ spc = "accept" /\ sock = "closed" /\ closes = served
  /\ cl_state = "connecting"


(***************************************************************************)
(* A first message that is no command                                      *)
(***************************************************************************)
UnknownFirst ==
  /\ cl_state # "connecting"
  /\ \/ cl_kind.req = "other"
     \/ trace # <<>> /\ trace[1] = <<"C", "x">>

NoServerBytes == s2c = <<>> /\ \A k \in DOMAIN trace : trace[k][1] # "S"

\* C15: when the first message on a connection is none of the three commands
\* the server sends no bytes on the connection, closes it, changes no
\* statistic, and goes on accepting.
C15_UnknownSelector ==
  /\ [](UnknownFirst =>
          /\ NoServerBytes
          /\ spc \in {"selector", "log", "close", "accept"}
          /\ sock = "closed" => (spc = "accept" /\ closes = served))
  /\ [][UnknownFirst => logging_info' = logging_info]_vars

C15_Witness ==
  /\ cl_kind.req = "other" /\ cl_state = "talking"
  /\ trace = << <<"C", "selector">> >>
  /\ c2s = <<>> /\ sock = "closed" /\ spc = "accept"


(***************************************************************************)
(* The reset request                                                       *)
(***************************************************************************)
\* the keys log_info and log_near write, for the thresholds up to MaxNear
MaxNear == 1

NearKeys(i) == {<<"total_nears", i>>, <<"avg nears", i>>}

StatKeys ==
  {<<"cuda_time", 0>>, <<"cuda_run", 0>>, <<"avg cuda_time", 0>>}
    \cup UNION {NearKeys(i) : i \in 0..MaxNear}

\* dictionaries of statistics to reset: empty, partly and fully filled
SampleInfos ==
  { <<>>,
    [k \in {<<"cuda_time", 0>>, <<"cuda_run", 0>>} |-> 1],
    [k \in StatKeys |-> IF k[1] = "cuda_run" THEN 2 ELSE 5] }

AllZero(info) == \A k \in DOMAIN info : info[k] = 0

\* C16: after a reset request every rolling statistic is zero, no bytes were
\* sent to the client, and the connection is closed.
C16_ResetZeroesStatistics ==
  /\ \A info \in SampleInfos :
       /\ DOMAIN reset_logging_info(info) = DOMAIN info
       /\ AllZero(reset_logging_info(info))
  /\ (cl_kind.req = "reset" /\ cl_state # "connecting") =>
       /\ NoServerBytes
       /\ spc \in {"selector", "reset", "close", "accept"}
       /\ spc \in {"close", "accept"} => AllZero(logging_info)
       /\ sock = "closed" => (spc = "accept" /\ closes = served)

C16_Witness ==
  /\ cl_kind.req = "reset" /\ cl_state = "talking"
  /\ trace = << <<"C", "selector">> >>
  /\ c2s = <<>> /\ sock = "closed" /\ spc = "accept"
  /\ AllZero(logging_info)


(***************************************************************************)
(* The compressed code store (FastCompressIntDict).  A store maps bucket   *)
(* keys to buckets and carries one list of key dimensions.  A bucket holds *)
(* either raw entries <<code, item id>> in insertion order, or the 64      *)
(* run-length columns of its sorted codes with the item ids in that order. *)
(***************************************************************************)
RawBucket(entries) == [raw |-> entries, cols |-> NoColumns, ids |-> <<>>]

IsRaw(b) == b.cols = NoColumns /\ b.ids = <<>>

IsCompressed(b) == b.raw = <<>> /\ b.cols # NoColumns

keys(d) == DOMAIN d.buckets

exist(d, key) == key \in keys(d)

Put(d, key, b) ==
  [d EXCEPT !.buckets = [x \in keys(d) \cup {key} |-> IF x = key THEN b ELSE d.buckets[x]]]

\* set: the bucket becomes a single entry; a compressed bucket is immutable
set(d, key, code, id) ==
  IF exist(d, key) /\ IsCompressed(d.buckets[key]) THEN d
  ELSE Put(d, key, RawBucket(<< <<code, id>> >>))

\* append: raw form only, at the end
append(d, key, code, id) ==
  IF ~exist(d, key) THEN Put(d, key, RawBucket(<< <<code, id>> >>))
  ELSE IF IsCompressed(d.buckets[key]) THEN d
  ELSE Put(d, key, RawBucket(Append(d.buckets[key].raw, <<code, id>>)))

\* get: the raw entries in order, nothing for an absent key
get(d, key) == IF exist(d, key) THEN d.buckets[key].raw ELSE <<>>

\* the entries in ascending order of their codes, equal codes in insertion order
RECURSIVE SortEntries(_)
SortEntries(es) ==
  IF es = <<>> THEN <<>>
  ELSE LET i == CHOOSE x \in DOMAIN es :
                  /\ \A y \in DOMAIN es : WordLE(es[x][1], es[y][1])
                  /\ \A y \in 1..(x - 1) : es[y][1] # es[x][1]
       IN  <<es[i]>> \o SortEntries(SubSeq(es, 1, i - 1) \o SubSeq(es, i + 1, Len(es)))

\* compression that keeps the raw entries
CompressKeepsRaw(b) ==
  LET sorted == SortEntries(b.raw)
  IN  [raw  |-> b.raw,
       cols |-> Encode([k \in 0..(Len(sorted) - 1) |-> sorted[k + 1][1]]),
       ids  |-> [k \in 1..Len(sorted) |-> sorted[k][2]]]

\* the compressed form of a raw bucket
Compress(b) ==
  LET sorted == SortEntries(b.raw)
  IN  [raw  |-> <<>>,
       cols |-> Encode([k \in 0..(Len(sorted) - 1) |-> sorted[k + 1][1]]),
       ids  |-> [k \in 1..Len(sorted) |-> sorted[k][2]]]

\* go_index whose columns leave out a first run of length 0
GoIndexFromFirstBit(d) ==
  [d EXCEPT !.buckets = [x \in keys(d) |->
     IF IsRaw(d.buckets[x])
     THEN [Compress(d.buckets[x]) EXCEPT
             !.cols = [c \in Columns |-> IF @[c][1] = 0 /\ Len(@[c]) > 1 THEN Tail(@[c]) ELSE @[c]]]
     ELSE d.buckets[x]]]

\* go_index / init_runtime_dict over the whole store
go_index(d) ==
  [d EXCEPT !.buckets = [x \in keys(d) |->
     IF IsRaw(d.buckets[x]) THEN Compress(d.buckets[x]) ELSE d.buckets[x]]]

\* the sum of the first r runs
RECURSIVE RunSum(_, _)
RunSum(runs, r) == IF r = 0 THEN 0 ELSE runs[r] + RunSum(runs, r - 1)

\* the bit the runs give to entry k (from 0): runs alternate from bit value 0,
\* so a column of one run is all zeros
BitAt(runs, k) ==
  IF Len(runs) = 1 THEN 0
  ELSE LET r == CHOOSE x \in DOMAIN runs : RunSum(runs, x - 1) <= k /\ k < RunSum(runs, x)
       IN  (r - 1) % 2

\* the entries a bucket stands for
Decompress(b) ==
  IF IsRaw(b) THEN b.raw
  ELSE [k \in 1..Len(b.ids) |->
          <<{c \in Columns : BitAt(b.cols[c], k - 1) = 1}, b.ids[k]>>]

EmptyCols == <<NoColumns, <<>> >>

\* get_cols: the columns and the item ids, empty for an absent or raw bucket
get_cols(d, key) ==
  IF exist(d, key) /\ IsCompressed(d.buckets[key])
  THEN <<d.buckets[key].cols, d.buckets[key].ids>>
  ELSE EmptyCols

Content(d, key) == IF exist(d, key) THEN Decompress(d.buckets[key]) ELSE <<>>

\* merge that only concatenates the raw lists
MergeRawLists(d, other) ==
  [d EXCEPT !.buckets = [x \in keys(d) \cup keys(other) |->
     IF x \in keys(other)
     THEN RawBucket(get(d, x) \o get(other, x))
     ELSE d.buckets[x]]]

\* merge that leaves the columns of a compressed bucket in place
MergeKeepsColumns(d, other) ==
  [d EXCEPT !.buckets = [x \in keys(d) \cup keys(other) |->
     IF x \in keys(other)
     THEN IF exist(d, x) /\ IsCompressed(d.buckets[x]) THEN d.buckets[x]
          ELSE RawBucket(Content(d, x) \o Content(other, x))
     ELSE d.buckets[x]]]

\* merge: for every key of other, its entries follow the bucket's own; the
\* bucket is raw again and must be recompressed
merge(d, other) ==
  [d EXCEPT !.buckets = [x \in keys(d) \cup keys(other) |->
     IF x \in keys(other)
     THEN RawBucket(Content(d, x) \o Content(other, x))
     ELSE d.buckets[x]]]

\* clear: every bucket goes, the key dimensions stay
clear(d) == [d EXCEPT !.buckets = <<>>]

set_keydimensions(d, dims) == [d EXCEPT !.key_dimensions = dims]

get_keydimensions(d) == d.key_dimensions


\* a length-prefixed array of the file, and reading it back
Prefixed(a) == [n |-> Len(a), data |-> a]

ReadPrefixed(p) == SubSeq(p.data, 1, p.n)

\* the keys in ascending order
RECURSIVE KeySeq(_)
KeySeq(S) ==
  IF S = {} THEN <<>>
  ELSE LET m == CHOOSE x \in S : \A y \in S : x <= y
       IN  <<m>> \o KeySeq(S \ {m})

\* one key's record: the representation that is active
SaveBucket(key, b) ==
  [key        |-> key,
   compressed |-> IsCompressed(b),
   columns    |-> [c \in Columns |-> Prefixed(b.cols[c])],
   ids        |-> Prefixed(b.ids),
   entries    |-> Prefixed(b.raw)]

\* save that writes the raw entries only
SaveRawOnly(d) ==
  LET ks == KeySeq(keys(d))
  IN  [written        |-> TRUE,
       key_dimensions |-> Prefixed(d.key_dimensions),
       records        |-> [i \in DOMAIN ks |-> SaveBucket(ks[i], RawBucket(d.buckets[ks[i]].raw))]]

\* save_compress_int: the key dimensions, then one record per key
save_compress_int(d) ==
  LET ks == KeySeq(keys(d))
  IN  [written        |-> TRUE,
       key_dimensions |-> Prefixed(d.key_dimensions),
       records        |-> [i \in DOMAIN ks |-> SaveBucket(ks[i], d.buckets[ks[i]])]]

LoadBucket(r) ==
  IF r.compressed
  THEN [raw  |-> <<>>,
        cols |-> [c \in Columns |-> ReadPrefixed(r.columns[c])],
        ids  |-> ReadPrefixed(r.ids)]
  ELSE RawBucket(ReadPrefixed(r.entries))

\* load_compress_int: the file's key dimensions and buckets into the store
load_compress_int(f, d) ==
  LET recs  == f.records
      fkeys == {recs[i].key : i \in DOMAIN recs}
      rec(x) == recs[CHOOSE i \in DOMAIN recs : recs[i].key = x]
  IN  [buckets |-> [x \in keys(d) \cup fkeys |->
                      IF x \in fkeys THEN LoadBucket(rec(x)) ELSE d.buckets[x]],
       key_dimensions |-> ReadPrefixed(f.key_dimensions)]

(***************************************************************************)
(* The store's operations as steps, on the keys and entries of the demo.   *)
(***************************************************************************)
\* longest bucket of the runs
MaxBucket == 2

StoreKeys == {123, 789}

\* the entries the caller stores: <<code, item id>>
StoreEntries == {<<ToWord(789), 0>>, <<ToWord(678), 1>>}

KeyDimensionLists == {<<1, 2, 3>>}

\* the stores merged in: one raw bucket, and two compressed ones
MergeSource == set(EmptyStore, 789, ToWord(123), 3)

IndexedSource == go_index(set(MergeSource, 123, ToWord(678), 4))

OtherStores == {MergeSource, IndexedSource}

Fits(d) == \A x \in keys(d) : Len(Content(d, x)) <= MaxBucket

\* longest run of operations
MaxOps == 5

More == last.n < MaxOps

StoreFrame == UNCHANGED <<bucketVars, codecVars, kernelVars, denseVars, serverVars, clientVars, lshVars>>

Set ==
  /\ More
  /\ \E key \in StoreKeys, e \in StoreEntries :
       /\ fdict' = set(fdict, key, e[1], e[2])
       /\ last' = [op |-> "set", n |-> last.n + 1]
  /\ UNCHANGED disk
  /\ StoreFrame

AppendEntry ==
  /\ More
  /\ \E key \in StoreKeys, e \in StoreEntries :
       /\ Len(Content(fdict, key)) < MaxBucket
       /\ fdict' = append(fdict, key, e[1], e[2])
       /\ last' = [op |-> "append", n |-> last.n + 1]
  /\ UNCHANGED disk
  /\ StoreFrame

Merge ==
  /\ More
  /\ \E other \in OtherStores :
       /\ Fits(merge(fdict, other))
       /\ fdict' = merge(fdict, other)
       /\ last' = [op |-> "merge", other |-> other, n |-> last.n + 1,
                   compressed |-> {x \in keys(fdict) : IsCompressed(fdict.buckets[x])}]
  /\ UNCHANGED disk
  /\ StoreFrame

GoIndexAll ==
  /\ More
  /\ fdict' = go_index(fdict)
  /\ last' = [op |-> "go_index", n |-> last.n + 1]
  /\ UNCHANGED disk
  /\ StoreFrame

Clear ==
  /\ More
  /\ fdict' = clear(fdict)
  /\ last' = [op |-> "clear", n |-> last.n + 1]
  /\ UNCHANGED disk
  /\ StoreFrame

SetKeyDimensions ==
  /\ More
  /\ \E dims \in KeyDimensionLists : fdict' = set_keydimensions(fdict, dims)
  /\ last' = [op |-> "set_keydimensions", n |-> last.n + 1]
  /\ UNCHANGED disk
  /\ StoreFrame

Save ==
  /\ More
  /\ disk' = save_compress_int(fdict)
  /\ last' = [op |-> "save", n |-> last.n + 1]
  /\ UNCHANGED fdict
  /\ StoreFrame

\* the file is loaded into a store without buckets
Load ==
  /\ More
  /\ disk.written
  /\ keys(fdict) = {}
  /\ fdict' = load_compress_int(disk, fdict)
  /\ last' = [op |-> "load", n |-> last.n + 1]
  /\ UNCHANGED disk
  /\ StoreFrame

StoreInit ==
  /\ codes = EmptyArray /\ bit_counts = NoColumns /\ behind = <<>>
  /\ CodecIdle
  /\ KernelIdle
  /\ DenseIdle
  /\ ServerOff
  /\ StoreIdle

\* get_binary_codes that decodes the columns of a compressed bucket
GetBinaryCodesDecodes(d, key) ==
  LET es == Content(d, key)
  IN  [ok |-> TRUE, codes |-> [k \in DOMAIN es |-> es[k][1]]]

\* get_binary_codes: the codes of the raw entries; InvalidState once the raw
\* entries are gone
get_binary_codes(d, key) ==
  IF exist(d, key) /\ IsCompressed(d.buckets[key])
  THEN [ok |-> FALSE, error |-> "InvalidState"]
  ELSE LET es == get(d, key)
       IN  [ok |-> TRUE, codes |-> [k \in DOMAIN es |-> es[k][1]]]

\* a read: it is not counted as an operation on the store
GetBinaryCodes ==
  /\ last.op # "get_binary_codes"
  /\ \E key \in StoreKeys :
       last' = [op |-> "get_binary_codes", key |-> key, n |-> last.n,
                after |-> last.op, result |-> get_binary_codes(fdict, key)]
  /\ UNCHANGED <<fdict, disk>>
  /\ StoreFrame

StoreNext ==
  \/ Set \/ AppendEntry \/ Merge \/ GoIndexAll \/ Clear
  \/ SetKeyDimensions \/ Save \/ Load \/ GetBinaryCodes

SpecStore == StoreInit /\ [][StoreNext]_vars


(***************************************************************************)
(* Claims about the store                                                  *)
(***************************************************************************)
RawOrCompressed ==
  \A x \in keys(fdict) : IsRaw(fdict.buckets[x]) # IsCompressed(fdict.buckets[x])

BecomesCompressed(x) ==
  /\ exist(fdict, x) /\ IsRaw(fdict.buckets[x])
  /\ exist(fdict', x) /\ IsCompressed(fdict'.buckets[x])

BecomesRaw(x) ==
  /\ exist(fdict, x) /\ IsCompressed(fdict.buckets[x])
  /\ exist(fdict', x) /\ IsRaw(fdict'.buckets[x])

BagOf(es) ==
  [e \in {es[i] : i \in DOMAIN es} |-> Cardinality({i \in DOMAIN es : es[i] = e})]

Copies(bag, e) == IF e \in DOMAIN bag THEN bag[e] ELSE 0

\* the multiset union
BagSum(b1, b2) == [e \in DOMAIN b1 \cup DOMAIN b2 |-> Copies(b1, e) + Copies(b2, e)]

ContentBag(d, key) == BagOf(Content(d, key))

SameContent(d1, d2) ==
  /\ keys(d1) = keys(d2)
  /\ \A x \in keys(d1) : ContentBag(d1, x) = ContentBag(d2, x)

C19_MergeInvalidatesColumns ==
  /\ [][last'.op = "merge" =>
          \A x \in keys(last'.other) : get_cols(fdict', x) = EmptyCols]_vars
  /\ [][\A x \in StoreKeys :
          (exist(fdict, x) /\ get_cols(fdict, x) = EmptyCols /\ get_cols(fdict', x) # EmptyCols)
            => last'.op = "go_index"]_vars

\* a merge into a bucket that was compressed has happened
C19_Witness ==
  /\ last.op = "merge"
  /\ \E x \in last.compressed \cap keys(last.other) :
       /\ get_cols(fdict, x) = EmptyCols
       /\ Len(get(fdict, x)) = 2

SameAnswers(d1, d2) ==
  /\ keys(d1) = keys(d2)
  /\ \A x \in keys(d1) :
       /\ get(d1, x) = get(d2, x)
       /\ get_cols(d1, x) = get_cols(d2, x)
  /\ get_keydimensions(d1) = get_keydimensions(d2)

Dot(u, v) == u[1] * v[1] + u[2] * v[2]

\* "".join(['1' if i > 0 else '0' for i in projections])
BitString(planes, input_point) ==
  [i \in DOMAIN planes |-> IF Dot(planes[i], input_point) > 0 THEN 1 ELSE 0]

\* bitarray(string).tobytes(): eight characters a byte, the first character the
\* byte's highest bit, the last byte filled up with zeros
ToBytes(string) ==
  LET n == Cardinality(DOMAIN string)
  IN  [j \in 0..(((n + 7) \div 8) - 1) |->
         {7 - t : t \in {x \in 0..7 : 8 * j + x < n /\ string[8 * j + x] = 1}}]

\* struct.unpack("<Q", bytes)[0]: eight bytes, the first the lowest
UnpackQ(bytes) ==
  IF Cardinality(DOMAIN bytes) # 8 THEN [ok |-> FALSE, error |-> "struct.error"]
  ELSE [ok |-> TRUE, code |-> UNION {{8 * j + b : b \in bytes[j]} : j \in DOMAIN bytes}]

\* LSHash._hash
Hash(planes, input_point) ==
  CHOOSE h \in {UnpackQ(bytes) : bytes \in
                  {ToBytes(string) : string \in {BitString(planes, input_point)}}} : TRUE

\* the planes of the runs: two families of rows, hash_size rows each
PlaneRow(f, i) ==
  IF f = 1 THEN <<IF i % 2 = 0 THEN 1 ELSE -1, IF i % 3 = 0 THEN 1 ELSE 0>>
  ELSE <<(i % 3) - 1, IF i % 4 < 2 THEN 1 ELSE -1>>

uniform_planes(hash_size, f) == [i \in 0..(hash_size - 1) |-> PlaneRow(f, i)]

HashSizes == {8, 56, 57, 64}

PlaneFamilies == {1, 2}

LshPoints == {<<1, 0>>, <<0, 1>>, <<-1, 1>>, <<0, 0>>}

\* hamming_candidates: the keys with their distances, in the keys' order
HammingCandidates(loaded_keys, hamming_distances) ==
  [idx \in DOMAIN loaded_keys |-> <<loaded_keys[idx], hamming_distances[idx]>>]

\* hamming_candidates.sort(key=lambda x: x[1]): ascending, equal distances in
\* the order they had
SortByDistance(cands) ==
  LET before(j, k) == \/ WordLess(cands[j][2], cands[k][2])
                      \/ cands[j][2] = cands[k][2] /\ j < k
      Place(order) == [r \in 1..Cardinality(DOMAIN cands) |->
                         cands[(CHOOSE p \in order : p[2] = r - 1)[1]]]
  IN  CHOOSE sorted \in
        {Place(rank) : rank \in
           {{<<k, Cardinality({j \in DOMAIN cands : before(j, k)})>> : k \in DOMAIN cands}}} :
        TRUE

\* num_results: None is <<>>, a number n is <<n>>
None == <<>>

\* hamming_candidates[:num_results] if num_results else hamming_candidates
Truncate(cands, num_results) ==
  IF num_results = None \/ num_results[1] = 0 THEN cands
  ELSE SubSeq(cands, 1, IF num_results[1] < Len(cands) THEN num_results[1] ELSE Len(cands))

\* LSHash.query, one table, distance_func "hamming"; the object's CudaHamming
\* has the default block and grid
LshAnswer(binary_hash, loaded_keys, num_results) ==
  IF ~binary_hash.ok THEN [op |-> "query", ok |-> FALSE, error |-> binary_hash.error]
  ELSE [op |-> "query", ok |-> TRUE,
        binary_hash |-> binary_hash.code,
        num_results |-> num_results,
        candidates |->
          CHOOSE ranked \in
            {Truncate(SortByDistance(hamming_candidates), num_results) :
               hamming_candidates \in
                 {HammingCandidates(loaded_keys,
                    MultiIteration(binary_hash.code, loaded_keys,
                                   default_block * default_grid))}} : TRUE]

LshQuery(planes, loaded_keys, query_point, num_results) ==
  CHOOSE answer \in {LshAnswer(binary_hash, loaded_keys, num_results) :
                       binary_hash \in {Hash(planes, query_point)}} : TRUE

\* most keys a table gets by index()
MaxKeys == 2

\* most results asked for
MaxResults == 2

NoAnswer == [op |-> "none"]

HasKey(loaded_keys, code) == \E k \in DOMAIN loaded_keys : loaded_keys[k] = code

LshFrame ==
  UNCHANGED <<bucketVars, codecVars, kernelVars, denseVars, serverVars, clientVars, storeVars>>

\* index(input_point): the hash becomes a key of the table
Index ==
  /\ lsh.pc = "ready"
  /\ ArrayLen(lsh.keys) < MaxKeys
  /\ \E input_point \in LshPoints :
     \E h \in {Hash(planes, input_point) :
                planes \in {uniform_planes(lsh.hash_size, lsh.family)}} :
           IF h.ok
           THEN lsh' = [lsh EXCEPT
                  !.keys = IF HasKey(@, h.code) THEN @ ELSE Concat(@, [k \in {0} |-> h.code]),
                  !.answer = [op |-> "index", input_point |-> input_point, hash |-> h]]
           ELSE lsh' = [lsh EXCEPT
                  !.answer = [op |-> "index", input_point |-> input_point, hash |-> h]]
  /\ LshFrame

\* load_keys, as query calls it: only while loaded_keys is None
LoadedKeys(l) == IF l.loaded_keys = None THEN l.keys ELSE l.loaded_keys[1]

\* query(query_point, num_results, "hamming"): the hash of the point comes
\* first; the keys are those of the first query
Query ==
  /\ lsh.pc = "ready"
  /\ \E query_point \in LshPoints, num_results \in {None} \cup {<<n>> : n \in 0..MaxResults},
        planes \in {uniform_planes(lsh.hash_size, lsh.family)} :
       \E answer \in {LshQuery(planes, LoadedKeys(lsh), query_point, num_results)} :
         /\ ArrayLen(lsh.keys) > 0 \/ ~answer.ok
         /\ lsh' = [lsh EXCEPT !.loaded_keys = <<LoadedKeys(lsh)>>, !.answer = answer]
  /\ LshFrame

LshInit ==
  /\ codes = EmptyArray /\ bit_counts = NoColumns /\ behind = <<>>
  /\ CodecIdle
  /\ KernelIdle
  /\ DenseIdle
  /\ ServerOff
  /\ StoreOff
  /\ \E hash_size \in HashSizes, f \in PlaneFamilies :
       lsh = [pc |-> "ready", hash_size |-> hash_size, family |-> f,
              keys |-> EmptyArray, loaded_keys |-> None, answer |-> NoAnswer]

LshNext == Index \/ Query

SpecLsh == LshInit /\ [][LshNext]_vars


\* the distance of a brute-force ranking: the number of differing bits
BruteDistance(a, b) == ToWord(Cardinality(XOR(a, b)))

\* the place of key k in a brute-force ranking of the keys against the code
BruteRank(stored, code, k) ==
  Cardinality({j \in DOMAIN stored :
     \/ Cardinality(XOR(code, stored[j])) < Cardinality(XOR(code, stored[k]))
     \/ Cardinality(XOR(code, stored[j])) = Cardinality(XOR(code, stored[k])) /\ j < k})

\* C22: for every hash_size <= 64 and every point, _hash returns a code whose
\* bit i is 1 exactly when dot(planes[i], point) > 0, for i < hash_size, and
\* whose bits at positions >= hash_size are 0.
C22_HashBitIsProjectionSign ==
  lsh.answer.op = "index" =>
    /\ lsh.answer.hash.ok
    /\ \A i \in 0..(lsh.hash_size - 1) :
         i \in lsh.answer.hash.code
           <=> Dot(PlaneRow(lsh.family, i), lsh.answer.input_point) > 0
    /\ \A i \in lsh.answer.hash.code : i < lsh.hash_size

\* C23: a single-table Hamming query answers with the stored codes in
\* ascending distance to the query code, equal distances in the keys' order,
\* each with its own distance, cut to the first num_results for every
\* num_results (all of them when it is None): the brute-force ranking.
C23_QueryIsBruteForceRanking ==
  lsh.answer.op = "query" =>
    /\ lsh.answer.ok
    /\ LET stored == lsh.keys
           n      == ArrayLen(stored)
           limit  == IF lsh.answer.num_results = None \/ lsh.answer.num_results[1] > n
                     THEN n ELSE lsh.answer.num_results[1]
       IN  /\ Len(lsh.answer.candidates) = limit
           /\ \A k \in DOMAIN stored :
                BruteRank(stored, lsh.answer.binary_hash, k) < limit =>
                  lsh.answer.candidates[BruteRank(stored, lsh.answer.binary_hash, k) + 1]
                    = <<stored[k], BruteDistance(lsh.answer.binary_hash, stored[k])>>

\* the runs of a column of a bucket of N entries: they add up to N and only
\* the first may be empty, so that they alternate from bit value 0
WellFormedRuns(runs, N) ==
  /\ Len(runs) >= 1
  /\ RunSum(runs, Len(runs)) = N
  /\ \A r \in 2..Len(runs) : runs[r] > 0

\* C24: in every compressed bucket of N entries each of the 64 columns has
\* runs that add up to N and alternate from bit value 0 (the first run may be
\* empty), after go_index and after the load of a compressed file: in every
\* state the runs are well formed, and the runs go_index makes give entry k
\* of the sorted codes its own bit, read from bit value 0.
C24_RunsSumToBucketSize ==
  /\ [](\A key \in keys(fdict) :
          IsCompressed(fdict.buckets[key]) =>
            \A c \in Columns :
              WellFormedRuns(fdict.buckets[key].cols[c], Len(fdict.buckets[key].ids)))
  /\ [][last'.op = "go_index" =>
          \A key \in keys(fdict) :
            IsRaw(fdict.buckets[key]) =>
              \A sorted \in {SortEntries(fdict.buckets[key].raw)} :
                \A c \in Columns, k \in 1..Len(sorted) :
                  BitAt(fdict'.buckets[key].cols[c], k - 1) = BitOf(sorted[k][1], c)]_vars

\* a bucket loaded from a compressed file, with a column whose first run is
\* empty and a column whose first run is not
C24_Witness ==
  /\ last.op = "load"
  /\ \E key \in keys(fdict) :
       /\ IsCompressed(fdict.buckets[key])
       /\ Len(fdict.buckets[key].ids) >= 1
       /\ \E c \in Columns : fdict.buckets[key].cols[c][1] = 0
       /\ \E c \in Columns : fdict.buckets[key].cols[c][1] > 0

(***************************************************************************)
(* cuda_hamming_dist_in_compressed_domain: the launch as the wrapper       *)
(* prepares it.                                                            *)
(***************************************************************************)
\* binary_code_length = len(image_ids), then binary_code_length = 100
binary_code_length(image_ids) == 100

distance_compress_base == 4

\* the item ids of a bucket of n codes
ImageIds(n) == [k \in 1..n |-> k - 1]

\* the wrapper up to the launch: the columns go to the device as they are,
\* length and the output array come from binary_code_length, and the output
\* is handed over with drv.Out
WrapperInit ==
  /\ codes \in {ExampleBucket(n) : n \in 1..MaxSmallN}
               \cup {LongBucket(n) : n \in batch_size..(batch_size + MaxOver)}
  /\ bit_counts = Encode(codes)
  /\ CodecIdle
  /\ query = ExampleQuery
  /\ max_length = binary_code_length(ImageIds(ArrayLen(codes)))
  /\ behind \in Behinds(max_length)
  /\ base = distance_compress_base
  /\ block = 1
  /\ grid \in 1..MaxGrid
  /\ uninit \in DeviceGarbage
  /\ distances = [k \in 0..(max_length - 1) |-> uninit]
  /\ upc = [u \in Units |-> "start"]
  /\ binary_codes = [u \in Units |-> EmptyArray]
  /\ binary_code_index = [u \in Units |-> 0]
  /\ loaded = [u \in Units |-> ZeroWord]
  /\ dist_raw = [u \in Units |-> ZeroWord]
  /\ distance = [u \in Units |-> ZeroWord]
  /\ DenseIdle
  /\ ServerIdle

SpecWrapper == WrapperInit /\ [][KernelNext]_vars

\* C25: the wrapper launches the kernel with N the number of item ids of the
\* bucket and an output array of exactly N words; the kernel has no result
\* for an index >= N and a result for every index < N.
C25_DispatchSizedToItemIds ==
  /\ max_length = ArrayLen(codes)
  /\ ArrayLen(distances) = ArrayLen(codes)
  /\ \A u \in Units : UnitBatch(u) \subseteq 0..(ArrayLen(codes) - 1)
  /\ AllDone => \A i \in 0..(ArrayLen(codes) - 1) : \E u \in Units : i \in UnitBatch(u)

\* C26: for one launch with the configured block and grid, every code index
\* in [0, N) belongs to the batch of exactly one unit, for every N, so that
\* when all units are done every index has been decoded and written once.
C26_EveryIndexInOneBatch ==
  AllDone =>
    \A i \in 0..(max_length - 1) : Cardinality({u \in Units : i \in UnitBatch(u)}) = 1

\* the number of slots of a column's memory the outer while has read when it
\* ends: the test is count_for_bits <= max_length[0], the read comes before
\* the break
RECURSIVE SlotsRead(_, _, _, _)
SlotsRead(mem, N, count_for_bits, bit_count_index) ==
  IF count_for_bits > N \/ bit_count_index >= Len(mem) THEN bit_count_index
  ELSE LET count == count_for_bits + mem[bit_count_index + 1]
       IN  IF count > N THEN bit_count_index + 1
           ELSE SlotsRead(mem, N, count, bit_count_index + 1)

\* C27: for every column whose runs add up to exactly N the decode loop ends
\* when it has consumed the column's runs, and reads no run at an index >=
\* the number of runs of the column.
C27_DecodeReadsOnlyItsRuns ==
  cpc = "decoded" =>
    \A c \in Columns :
      RunSum(bit_counts[c], Len(bit_counts[c])) = ArrayLen(codes) =>
        SlotsRead(bit_counts[c] \o behind, ArrayLen(codes), 0, 0) <= Len(bit_counts[c])

\* the run arrays the client packed into the blob of column c, each behind
\* its length
RunsOf(c) == IF c % 2 = 1 THEN << <<300, 2>>, <<3>> >> ELSE << <<4>>, <<1, 257, 2>> >>

\* C28: the run arrays the server hands to the kernel call are the run arrays
\* the client sent, value for value, under the flag "y" as well as without
\* it: the narrow conversion cuts no run length.
C28_ReshapeKeepsRuns ==
  (spc = "cd_call" /\ net = "whole") =>
    \A c \in DOMAIN frame.reshape_columns_vector :
      frame.reshape_columns_vector[c] = RunsOf(c)

(***************************************************************************)
(* The statistics: log_info and log_near as functions of the dictionary    *)
(* and of a kernel result (the distances, the kernel time).                *)
(***************************************************************************)
\* times are whole ticks, and a quotient is kept in this many parts of one
Ticks == 12

\* a / float(b)
FloatDiv(a, b) == (a * Ticks) \div b

Has(info, k) == k \in DOMAIN info

\* logging_info[k] = v
Store(info, k, v) == [x \in DOMAIN info \cup {k} |-> IF x = k THEN v ELSE info[x]]

\* len(numpy.where(hamming_distances[0] <= threshold)[0])
Nears(hamming_distances, threshold) ==
  Cardinality({k \in DOMAIN hamming_distances[1] : hamming_distances[1][k] <= threshold})

\* log_near that adds to the total and leaves the average as it was
LogNearTotalOnly(st, hamming_distances, threshold) ==
  IF st.error # "" THEN st
  ELSE LET total == <<"total_nears", threshold>>
           nears == Nears(hamming_distances, threshold)
       IN  [info |-> Store(st.info, total,
                      IF Has(st.info, total) THEN st.info[total] + nears ELSE nears),
            error |-> ""]

\* log_near: st is the dictionary and the exception raised so far
log_near(st, hamming_distances, threshold) ==
  IF st.error # "" THEN st
  ELSE LET total == <<"total_nears", threshold>>
           nears == Nears(hamming_distances, threshold)
           added == Store(st.info, total,
                      IF Has(st.info, total) THEN st.info[total] + nears ELSE nears)
       IN  IF added[<<"cuda_run", 0>>] = 0
           THEN [info |-> added, error |-> "ZeroDivisionError"]
           ELSE [info |-> Store(added, <<"avg nears", threshold>>,
                            FloatDiv(added[total], added[<<"cuda_run", 0>>])),
                 error |-> ""]

\* for i in range(...): log_near(hamming_distances, i)
RECURSIVE LogNears(_, _, _)
LogNears(st, hamming_distances, i) ==
  IF i > MaxNear THEN st
  ELSE LogNears(log_near(st, hamming_distances, i), hamming_distances, i + 1)

\* log_info: numpy.amax of no distances raises before a statistic is touched
log_info(info, hamming_distances) ==
  IF Len(hamming_distances[1]) = 0 THEN [info |-> info, error |-> "ValueError"]
  ELSE LET cuda_time == hamming_distances[2]
           counted ==
             IF ~Has(info, <<"cuda_time", 0>>)
             THEN Store(Store(info, <<"cuda_time", 0>>, cuda_time), <<"cuda_run", 0>>, 1)
             ELSE Store(Store(info, <<"cuda_time", 0>>, info[<<"cuda_time", 0>>] + cuda_time),
                        <<"cuda_run", 0>>, info[<<"cuda_run", 0>>] + 1)
       IN  \* the values are bound once
           CHOOSE out \in
             {IF st.error # "" THEN st
              ELSE [info |-> Store(st.info, <<"avg cuda_time", 0>>,
                               FloatDiv(st.info[<<"cuda_time", 0>>], st.info[<<"cuda_run", 0>>])),
                    error |-> ""] :
                st \in {LogNears([info |-> counted, error |-> ""], hamming_distances, 0)}} : TRUE

\* most kernel results logged in a run
MaxRuns == 3

\* kernel results: the distances and the kernel time
StatResults ==
  {<<d, t>> : d \in {<<>>, <<0>>, <<1, 0>>, <<2, 1>>}, t \in {0, 1}}

StatFrame == UNCHANGED <<spc, sock, closes, clientVars, notServer>>

\* a request that reaches the kernel result
StatLogInfo ==
  /\ served < MaxRuns
  /\ \E hamming_distances \in StatResults :
       \E out \in {log_info(logging_info, hamming_distances)} :
         /\ logging_info' = out.info
         /\ error' = out.error
         /\ frame' = [fn |-> "log_info", hamming_distances |-> hamming_distances,
                      before |-> logging_info]
  /\ served' = served + 1
  /\ StatFrame

\* a reset request
StatReset ==
  /\ frame.fn # "reset_logging_info"
  /\ logging_info' = reset_logging_info(logging_info)
  /\ error' = ""
  /\ frame' = [fn |-> "reset_logging_info", before |-> logging_info]
  /\ UNCHANGED served
  /\ StatFrame

\* a request that ends before the kernel result
StatAborted ==
  /\ frame.fn # "aborted"
  /\ error' = "Socket Error"
  /\ frame' = [fn |-> "aborted", before |-> logging_info]
  /\ UNCHANGED <<logging_info, served>>
  /\ StatFrame

StatNext == StatLogInfo \/ StatReset \/ StatAborted

SpecStats == ServerInit /\ [][StatNext]_vars

\* C29: after any sequence of successful, aborted and reset requests,
\* whenever the run count is above 0 the stored average kernel time is total
\* kernel time / run count and every stored average near count is its total
\* / run count, and no update divides by a run count of 0, the first request
\* after a reset included.
C29_AveragesAreTotalsOverRuns ==
  /\ error # "ZeroDivisionError"
  /\ (Has(logging_info, <<"cuda_run", 0>>) /\ logging_info[<<"cuda_run", 0>>] > 0) =>
       /\ Has(logging_info, <<"avg cuda_time", 0>>)
       /\ logging_info[<<"avg cuda_time", 0>>]
            = FloatDiv(logging_info[<<"cuda_time", 0>>], logging_info[<<"cuda_run", 0>>])
       /\ \A i \in 0..MaxNear :
            /\ Has(logging_info, <<"avg nears", i>>)
            /\ logging_info[<<"avg nears", i>>]
                 = FloatDiv(logging_info[<<"total_nears", i>>], logging_info[<<"cuda_run", 0>>])

\* the first result after a reset that followed two results: the run count
\* is 1 again and the averages are those of this result alone
C29_Witness ==
  /\ frame.fn = "log_info"
  /\ Has(frame.before, <<"cuda_run", 0>>) /\ frame.before[<<"cuda_run", 0>>] = 0
  /\ served = MaxRuns
  /\ logging_info[<<"cuda_run", 0>>] = 1
  /\ logging_info[<<"avg nears", 0>>] = Ticks

\* C30: a request that leaves the handshake before the kernel runs changes no
\* statistic: the statistics change only in the step that logs a kernel
\* result and in the step of a reset request.
C30_AbortLeavesStatistics ==
  [][/\ (HandshakeDeviation(cl_kind) /\ cl_state # "connecting") =>
          logging_info' = logging_info
     /\ logging_info' # logging_info => spc \in {"reset", "mi_log_info"}]_vars

\* a request that left its handshake has been closed, with the statistics of
\* before it
C30_Witness ==
  /\ HandshakeDeviation(cl_kind) /\ cl_state # "connecting"
  /\ error # ""
  /\ sock = "closed" /\ spc = "accept" /\ closes = served
  /\ logging_info = <<>>

\* C31: no failure on a client connection ends the accept loop, at any step
\* of the connection's life, a socket error at the read of the selector
\* included: the loop is never left, and once the failing connection is
\* closed the loop is at accept again with every accepted connection closed.
C31_NoFailureEndsLoop ==
  /\ spc # "dead"
  /\ (error # "" /\ sock = "closed") => (spc = "accept" /\ closes = served)
====
